---------------------------- MODULE Spec2Model ----------------------------
(***************************************************************************)
(* A model of the profile analysis engine of web-perf-mcp:                 *)
(*   - SourceMapResolver (src/runner/resolver.ts, lines 24-272), as a      *)
(*     state machine of asynchronous resolveLocation calls that interleave *)
(*     at their await points (specification Spec; LiveSpec adds the        *)
(*     fairness of the event loop, SequentialSpec has the calls made one   *)
(*     after the other);                                                   *)
(*   - CPUProfileAnalyzer (src/runner/analyzer.ts), as calls on profiles   *)
(*     drawn from bounded sets (specification AnalyzerSpec).               *)
(* Strings that the code inspects character by character (locators, file   *)
(* paths) are sequences of one-character strings.                          *)
(***************************************************************************)
EXTENDS Integers, Sequences, FiniteSets, TLC

\* ------------------------------------------------------------------------
\* Bounds of the model
\* ------------------------------------------------------------------------

\* resolveLocation invocations (direct or through a batch) in one run
MaxTasks == 2
\* length of the list handed to one resolveLocations call
MaxBatch == 2
\* resolveLocation calls in a run whose calls do not overlap
MaxCalls == 3
\* the samples of a profile
MaxSamples == 3
\* the analyzeCPUProfile calls on one analyzer
MaxAnalyses == 2

\* ------------------------------------------------------------------------
\* Strings
\* ------------------------------------------------------------------------

Null == "null"

StartsWith(s, pre) ==
  /\ Len(pre) <= Len(s)
  /\ SubSeq(s, 1, Len(pre)) = pre

EndsWith(s, suf) ==
  /\ Len(suf) <= Len(s)
  /\ SubSeq(s, Len(s) - Len(suf) + 1, Len(s)) = suf

\* sub occurs in s starting at position i
OccursAt(s, sub, i) ==
  /\ i >= 1
  /\ i + Len(sub) - 1 <= Len(s)
  /\ SubSeq(s, i, i + Len(sub) - 1) = sub

Includes(s, sub) == \E i \in 1..(Len(s) + 1) : OccursAt(s, sub, i)

HexChars == {"a", "b", "c", "d", "e", "f",
             "0", "1", "2", "3", "4", "5", "6", "7", "8", "9"}

WordChars == HexChars \cup {"g", "h", "i", "j", "k", "l", "m", "n", "o", "p",
                            "q", "r", "s", "t", "u", "v", "w", "x", "y", "z",
                            "C", "D", "_"}

AllHex(s, from, to) == \A j \in from..to : s[j] \in HexChars

\* String.prototype.trim, for the blank character of the model's alphabet
RECURSIVE TrimLeft(_)
TrimLeft(s) ==
  IF s # <<>> /\ Head(s) = " " THEN TrimLeft(Tail(s)) ELSE s

RECURSIVE TrimRight(_)
TrimRight(s) ==
  IF s # <<>> /\ s[Len(s)] = " " THEN TrimRight(SubSeq(s, 1, Len(s) - 1)) ELSE s

Trim(s) == TrimRight(TrimLeft(s))

\* position of the last "/" of s, 0 when there is none
LastSlash(s) ==
  LET P == {i \in 1..Len(s) : s[i] = "/"}
  IN  IF P = {} THEN 0 ELSE CHOOSE i \in P : \A j \in P : j <= i

DotJs == <<".", "j", "s">>
Http == <<"h", "t", "t", "p">>
FileColon == <<"f", "i", "l", "e", ":">>
FileScheme2 == <<"f", "i", "l", "e", ":", "/", "/">>
FileScheme3 == <<"f", "i", "l", "e", ":", "/", "/", "/">>

\* ------------------------------------------------------------------------
\* SourceMapResolver: pure helpers
\* ------------------------------------------------------------------------

\* /\.min\.js$/
PatternMin(url) == EndsWith(url, <<".", "m", "i", "n", ".", "j", "s">>)

\* /\.[a-f0-9]{8,}\.js$/
PatternHash(url) ==
  /\ EndsWith(url, DotJs)
  /\ \E i \in 1..Len(url) :
       /\ url[i] = "."
       /\ (Len(url) - 3) - i >= 8
       /\ AllHex(url, i + 1, Len(url) - 3)

\* /\.(chunk|bundle|dll|entry|plugin)\.js$/
PatternSuffix(url) ==
  \E w \in {<<"c", "h", "u", "n", "k">>, <<"b", "u", "n", "d", "l", "e">>,
            <<"d", "l", "l">>, <<"e", "n", "t", "r", "y">>,
            <<"p", "l", "u", "g", "i", "n">>} :
    EndsWith(url, <<".">> \o w \o DotJs)

\* /\/(bundles?|dist|build)\/.*\.js$/
PatternDir(url) ==
  /\ EndsWith(url, DotJs)
  /\ \E w \in {<<"b", "u", "n", "d", "l", "e">>,
               <<"b", "u", "n", "d", "l", "e", "s">>,
               <<"d", "i", "s", "t">>, <<"b", "u", "i", "l", "d">>} :
       \E i \in 1..Len(url) :
         /\ OccursAt(url, <<"/">> \o w \o <<"/">>, i)
         /\ i + Len(w) + 1 <= Len(url) - 3

\* /^(app|main|runtime|vendor|polyfill)\.[a-f0-9]+\.js$/
PatternEntry(url) ==
  \E w \in {<<"a", "p", "p">>, <<"m", "a", "i", "n">>,
            <<"r", "u", "n", "t", "i", "m", "e">>,
            <<"v", "e", "n", "d", "o", "r">>,
            <<"p", "o", "l", "y", "f", "i", "l", "l">>} :
    /\ StartsWith(url, w \o <<".">>)
    /\ EndsWith(url, DotJs)
    /\ Len(url) - 3 >= Len(w) + 2
    /\ AllHex(url, Len(w) + 2, Len(url) - 3)

\* /^kbn-.*\.js$/
PatternKbn(url) ==
  /\ StartsWith(url, <<"k", "b", "n", "-">>)
  /\ EndsWith(url, DotJs)
  /\ Len(url) >= 7

\* isMinifiedJavaScript without the test for original-source locators
isMinifiedJavaScriptNoSourceTest(url) ==
  IF url = <<>> \/ ~EndsWith(url, DotJs) THEN FALSE
  ELSE \/ PatternMin(url) \/ PatternHash(url) \/ PatternSuffix(url)
       \/ PatternDir(url) \/ PatternEntry(url) \/ PatternKbn(url)

isMinifiedJavaScript(url) ==
  IF url = <<>> \/ ~EndsWith(url, DotJs) THEN FALSE
  ELSE IF \/ Includes(url, <<"/", "s", "r", "c", "/">>)
          \/ Includes(url, <<"/", "s", "o", "u", "r", "c", "e", "/">>)
          \/ Includes(url, <<"w", "e", "b", "p", "a", "c", "k", ":", "/", "/">>)
       THEN FALSE
  ELSE \/ PatternMin(url) \/ PatternHash(url) \/ PatternSuffix(url)
       \/ PatternDir(url) \/ PatternEntry(url) \/ PatternKbn(url)

\* the first lines of retrieveFileWithHeaders: trim, then
\* filePath.replace(/^file:\/\/\/(\w:)?/, (_, drive) => drive ? '' : '/')
NormalizePath(filePath) ==
  LET p == Trim(filePath)
  IN  IF ~StartsWith(p, FileScheme2) \/ ~StartsWith(p, FileScheme3) THEN p
      ELSE IF Len(p) >= 10 /\ p[9] \in WordChars /\ p[10] = ":"
           THEN SubSeq(p, 11, Len(p))
           ELSE <<"/">> \o SubSeq(p, 9, Len(p))

\* path.resolve writes a run of "/" as one
RECURSIVE CollapseSlashes(_)
CollapseSlashes(s) ==
  IF Len(s) < 2 THEN s
  ELSE IF s[1] = "/" /\ s[2] = "/" THEN CollapseSlashes(Tail(s))
  ELSE <<s[1]>> \o CollapseSlashes(Tail(s))

\* process.cwd(), which path.resolve prepends to a relative path
Cwd == <<"/", "w">>

\* resolver.ts resolveUrl, for a reference that is absolute or a plain
\* relative name (no leading "/", no "." or ".." segment): new URL(relative,
\* base).href and path.resolve(path.dirname(base), relative) then both put
\* the name after the directory of the base.
resolveUrl(base, relative) ==
  IF base = <<>> \/ StartsWith(relative, Http) \/ StartsWith(relative, FileColon)
  THEN relative
  ELSE IF StartsWith(base, Http)
       THEN SubSeq(base, 1, LastSlash(base)) \o relative
       ELSE IF LastSlash(base) = 0
            THEN Cwd \o <<"/">> \o relative
            ELSE IF StartsWith(base, <<"/">>)
                 THEN SubSeq(base, 1, LastSlash(base)) \o relative
                 ELSE Cwd \o <<"/">>
                        \o CollapseSlashes(SubSeq(base, 1, LastSlash(base)))
                        \o relative

\* ------------------------------------------------------------------------
\* Source paths of a map, as the list of their "/"-separated segments
\* ------------------------------------------------------------------------

Undefined == "undefined"

\* "webpack://./src/app.ts"
SourceApp == <<"webpack:", "", ".", "src", "app.ts">>
\* "webpack://./node_modules/react/cjs/prod/react.js"
SourceReact == <<"webpack:", "", ".", "node_modules", "react", "cjs", "prod", "react.js">>

\* the position of the first "node_modules" segment, 0 when there is none
NodeModulesAt(parts) ==
  LET P == {i \in 1..Len(parts) : parts[i] = "node_modules"}
  IN  IF P = {} THEN 0 ELSE CHOOSE i \in P : \A j \in P : i <= j

\* resolver.ts cleanSourcePath on a path whose "node_modules", when present,
\* is a whole segment
cleanSourcePath(sourcePath) ==
  LET s1 == IF Len(sourcePath) >= 3 /\ sourcePath[1] = "webpack:" /\ sourcePath[2] = ""
            THEN SubSeq(sourcePath, 3, Len(sourcePath)) ELSE sourcePath
      s2 == IF Len(s1) >= 2 /\ s1[1] = "." THEN Tail(s1) ELSE s1
      n  == NodeModulesAt(s2)
      filePath == SubSeq(s2, n + 2, Len(s2))
  IN  IF n > 0 /\ n + 1 <= Len(s2) /\ s2[n + 1] # ""
      THEN IF filePath # <<>> /\ filePath # <<"">>
           THEN IF Len(filePath) > 2
                THEN <<"node_modules", s2[n + 1], "...">>
                       \o SubSeq(filePath, Len(filePath) - 1, Len(filePath))
                ELSE <<"node_modules", s2[n + 1]>> \o filePath
           ELSE <<"node_modules", s2[n + 1]>>
      ELSE IF Len(s2) > 6
           THEN <<s2[1], "...">> \o SubSeq(s2, Len(s2) - 2, Len(s2))
           ELSE s2

\* ------------------------------------------------------------------------
\* The resources the resolver reads
\* ------------------------------------------------------------------------

\* The text of a map resource or of an inline payload: a version-3 map, text
\* that is not JSON, JSON that is not a source map.
MapTexts == {"map", "badjson", "notmap"}

\* "a.min.js.map" and "http://h/x.map"
RelMap == <<"a", ".", "m", "i", "n", ".", "j", "s", ".", "m", "a", "p">>
AbsMap == <<"h", "t", "t", "p", ":", "/", "/", "h", "/", "x", ".", "m", "a", "p">>

\* A sourceMappingURL value: a locator of a map resource, or a
\* data:application/json URI (with ";base64," or not) and its payload; the
\* payload "badescape" is text decodeURIComponent rejects.
RefExt(target) == [kind |-> "ext", target |-> target, base64 |-> FALSE, payload |-> ""]
RefData(base64, payload) == [kind |-> "data", target |-> <<>>, base64 |-> base64, payload |-> payload]

\* The content of a JavaScript resource: its sourceMappingURL comments in order
JsContent(comments) == [type |-> "js", comments |-> comments, text |-> ""]
\* The content of any other resource
TextContent(text) == [type |-> "text", comments |-> <<>>, text |-> text]
\* content = null: the read failed
NullContent == [type |-> "null", comments |-> <<>>, text |-> ""]
\* sourceMapUrl = null: no header, no comment
NoRef == [kind |-> "none", target |-> <<>>, base64 |-> FALSE, payload |-> ""]

\* What a successful read of a JavaScript resource delivers: the content and
\* the SourceMap / X-SourceMap response header (Null when absent)
Response(content, header) == [status |-> "ok", content |-> content, sourceMapUrl |-> header]

JsResponses ==
  { Response(JsContent(<<>>), NoRef),
    Response(JsContent(<<RefExt(RelMap)>>), NoRef),
    Response(JsContent(<<RefExt(RelMap), RefData(TRUE, "map")>>), NoRef),
    Response(JsContent(<<RefData(TRUE, "map")>>), RefExt(AbsMap)),
    Response(JsContent(<<RefData(FALSE, "badescape")>>), NoRef),
    Response(JsContent(<<RefData(FALSE, "map")>>), NoRef) }

MapResponses == { Response(TextContent(t), NoRef) : t \in MapTexts }

\* A read that fails: fetch answers with a status that is not ok (content
\* stays null), or fetch, response.text or readFile throws (swallowed by the
\* empty catch clause)
FailedResponses ==
  { [status |-> st, content |-> NullContent, sourceMapUrl |-> NoRef] :
      st \in {"httpError", "throws"} }

\* SourceMapConsumer.originalPositionFor of the map "map", for column >= 0
\* and line >= 1: a source and a name on line 1, a source without a name on
\* line 2, nothing elsewhere. A source is a list of segments, <<>> for null;
\* a null line or column is 0, which JavaScript's || treats alike.
NoPosition == [source |-> <<>>, line |-> 0, column |-> 0, name |-> Null]

originalPositionFor(line, column) ==
  IF line = 1 THEN [source |-> SourceApp, line |-> 10, column |-> 0, name |-> "orig"]
  ELSE IF line = 2 THEN [source |-> SourceReact, line |-> 20, column |-> 5, name |-> Null]
  ELSE NoPosition

\* ------------------------------------------------------------------------
\* Locators handed to the resolver
\* ------------------------------------------------------------------------

\* "http://h/a.min.js", the same with a leading blank, "file:///d/b.bundle.js"
U_HttpMin == <<"h", "t", "t", "p", ":", "/", "/", "h", "/", "a", ".", "m", "i", "n", ".", "j", "s">>
U_SpaceMin == <<" ", "h", "t", "t", "p", ":", "/", "/", "h", "/", "a", ".", "m", "i", "n", ".", "j", "s">>
U_FileUrl == <<"f", "i", "l", "e", ":", "/", "/", "/", "d", "/", "b", ".", "b", "u", "n", "d", "l", "e", ".", "j", "s">>
\* "/d/b.bundle.js", the path of U_FileUrl
P_Bundle == <<"/", "d", "/", "b", ".", "b", "u", "n", "d", "l", "e", ".", "j", "s">>
\* "a.min.css", "/src/a.min.js", "/source/a.min.js", "webpack://a.min.js", "a.js"
U_Src == <<"/", "s", "r", "c", "/", "a", ".", "m", "i", "n", ".", "j", "s">>

Location(url, line, column, name) ==
  [url |-> url, line |-> line, column |-> column, originalFunctionName |-> name]

\* The arguments of the calls of the model
Locations ==
  { Location(U_HttpMin, 1, 1, Undefined),
    Location(U_HttpMin, 0, 1, Undefined),
    Location(U_SpaceMin, 2, 1, "hint"),
    Location(U_FileUrl, 3, 1, Undefined),
    Location(U_Src, 1, 1, Undefined) }

\* ------------------------------------------------------------------------
\* SourceMapResolver: state
\* ------------------------------------------------------------------------

VARIABLES
  sourceMapCache,    \* locator -> [url, map]; map = Null is a negative entry
  fileContentsCache, \* path -> content, NullContent for a read that failed
  locationsMap,      \* locator -> the ResolvedLocation of its last batch entry
  tasks,             \* the resolveLocation invocations, in the order of the calls
  batch,             \* the resolveLocations call
  fetchCount         \* path -> number of reads issued for it: fetches, file
                     \* reads and existsSync probes that find no file (history)

resolverVars == <<sourceMapCache, fileContentsCache, locationsMap, tasks,
                  batch, fetchCount>>

\* The state of a CPUProfileAnalyzer and of its calls
VARIABLES
  analysisResults,   \* [topFunctions, scriptAnalysis, rawData] of the analyzer
  analysis,          \* the analyzeCPUProfile call: its input, position and locals
  saved,             \* the number of reports saveReport has written
  analyses           \* the number of analyzeCPUProfile calls made

analyzerVars == <<analysisResults, analysis, saved, analyses>>

\* Map.prototype.set
MapSet(m, k, v) == (k :> v) @@ m

EmptyMap == <<>>

NegativeEntry == [url |-> <<>>, map |-> Null]

Bump(count, path) ==
  MapSet(count, path, IF path \in DOMAIN count THEN count[path] + 1 ELSE 1)

\* The defaultResult of resolveLocation; the two optional fields it leaves
\* out are <<>>
DefaultResult(loc) ==
  [originalFile |-> loc.url, originalLine |-> loc.line, originalColumn |-> loc.column,
   originalName |-> Null, isResolved |-> FALSE, minifiedUrl |-> loc.url,
   fullOriginalPath |-> <<>>, sourceMapUrl |-> <<>>]

\* x || y of JavaScript, for numbers and for strings
OrElseNumber(x, y) == IF x = 0 THEN y ELSE x
OrElseString(x, y) == IF x \in {Null, Undefined, ""} THEN y ELSE x

\* A resolveLocation invocation. pc is the await it is suspended at:
\*   "fetchJs"  the read of the minified resource (fetch or readFile)
\*   "haveJs"   retrieveFileWithHeaders has returned to retrieveSourceMapURL
\*   "fetchMap" the read of the map resource
\*   "haveMap"  retrieveFile has returned to retrieveSourceMap
\*   "consumer" new SourceMapConsumer(parsedMap) in retrieveSourceMap
\*   "done"     the invocation has its outcome
\* nfetch, wrote, stepFailed, lookupFailed and afterFailure are history.
NewTask(loc, inBatch, afterFailure) ==
  [loc |-> loc, inBatch |-> inBatch, pc |-> "start", path |-> <<>>,
   content |-> NullContent, header |-> NoRef, mapUrl |-> <<>>, data |-> "",
   outcome |-> Null, result |-> DefaultResult(loc), settled |-> FALSE,
   memo |-> FALSE,
   nfetch |-> 0, wrote |-> FALSE, stepFailed |-> FALSE, lookupFailed |-> FALSE,
   afterFailure |-> afterFailure]

\* The part of the state one step of an invocation reads and writes
Eff(t, smc, fcc, fc) == [task |-> t, smc |-> smc, fcc |-> fcc, fc |-> fc]

\* The invocation ends; its local variables are gone
Finish(t, outcome, result) ==
  [t EXCEPT !.pc = "done", !.outcome = outcome, !.result = result,
            !.path = <<>>, !.content = NullContent, !.header = NoRef,
            !.mapUrl = <<>>, !.data = ""]

\* resolveLocation rethrowing what it catches
CaughtRethrown(t) == Finish(t, "raised", DefaultResult(t.loc))

\* The catch clause of resolveLocation: return defaultResult
Caught(t) == Finish(t, "value", DefaultResult(t.loc))

\* return defaultResult
ReturnDefault(t) == Finish(t, "value", DefaultResult(t.loc))

\* Lines 49-66 of resolveLocation, after retrieveSourceMap returned data
\* whose map is the parsed JSON: a second consumer is built from it and asked
\* for the position; originalPositionFor throws for a line below 1 or a
\* column below 0.
PositionLookup(t, sourceMapUrl) ==
  IF t.loc.line < 1 \/ t.loc.column < 0 THEN Caught(t)
  ELSE LET pos == originalPositionFor(t.loc.line, t.loc.column)
       IN  IF pos.source # <<>>
           THEN Finish(t, "value",
                    [originalFile |-> cleanSourcePath(pos.source),
                     originalLine |-> OrElseNumber(pos.line, t.loc.line),
                     originalColumn |-> OrElseNumber(pos.column, t.loc.column),
                     originalName |-> OrElseString(pos.name, t.loc.originalFunctionName),
                     isResolved |-> TRUE,
                     minifiedUrl |-> t.loc.url,
                     fullOriginalPath |-> pos.source,
                     sourceMapUrl |-> sourceMapUrl])
           ELSE ReturnDefault(t)

\* Lines 100-105 of retrieveSourceMap followed by line 49 of resolveLocation:
\* on a cache hit the map handed back is the cached SourceMapConsumer, not
\* the parsed JSON, and new SourceMapConsumer(<a consumer>) rejects in
\* source-map 0.7 ('"version" is a required argument'), which the catch
\* clause turns into defaultResult.
FromCachedConsumer(t) == [Caught(t) EXCEPT !.stepFailed = TRUE]

\* retrieveFileWithHeaders without the lookup in fileContentsCache
RetrieveFileWithHeadersUncached(filePath, fcc, fc, existing) ==
  LET p == NormalizePath(filePath)
  IN  IF StartsWith(p, Http) \/ p \in existing
      THEN [kind |-> "read", path |-> p, content |-> NullContent, fcc |-> fcc,
            fc |-> Bump(fc, p)]
      ELSE [kind |-> "absent", path |-> p, content |-> NullContent,
            fcc |-> MapSet(fcc, p, NullContent), fc |-> Bump(fc, p)]

\* retrieveFileWithHeaders up to its first await: a cache hit, a read
\* issued (fetch, or readFile of a file that exists), or a file that does
\* not exist, which is recorded at once.
RetrieveFileWithHeaders(filePath, fcc, fc, existing) ==
  LET p == NormalizePath(filePath)
  IN  IF p \in DOMAIN fcc
      THEN [kind |-> "hit", path |-> p, content |-> fcc[p], fcc |-> fcc, fc |-> fc]
      ELSE IF StartsWith(p, Http) \/ p \in existing
           THEN [kind |-> "read", path |-> p, content |-> NullContent, fcc |-> fcc,
                 fc |-> Bump(fc, p)]
           ELSE [kind |-> "absent", path |-> p, content |-> NullContent,
                 fcc |-> MapSet(fcc, p, NullContent), fc |-> Bump(fc, p)]

\* A negative entry is written and retrieveSourceMap returns null
NegativeResult(t, smc, fcc, fc) ==
  Eff([ReturnDefault(t) EXCEPT !.wrote = TRUE, !.lookupFailed = TRUE],
      MapSet(smc, t.loc.url, NegativeEntry), fcc, fc)

\* Lines 136-153 of retrieveSourceMap up to the await of the consumer
ParseMapData(t, sourceMapData, sourceMapUrl, smc, fcc, fc) ==
  IF sourceMapData = "" THEN NegativeResult(t, smc, fcc, fc)
  ELSE IF sourceMapData = "badjson"
       THEN NegativeResult([t EXCEPT !.stepFailed = TRUE], smc, fcc, fc)
       ELSE Eff([t EXCEPT !.pc = "consumer", !.data = sourceMapData,
                          !.mapUrl = sourceMapUrl], smc, fcc, fc)

\* retrieveSourceMapURL after retrieveFileWithHeaders returned: the header
\* when there is one, else the last sourceMappingURL comment, else null
SourceMappingURL(content, header) ==
  IF content.type # "js" THEN NoRef
  ELSE IF header # NoRef THEN header
  ELSE IF content.comments # <<>> THEN content.comments[Len(content.comments)]
  ELSE NoRef

\* retrieveSourceMap without the test of line 116: a data: URI is resolved
\* against the locator and read like the locator of a map resource
AfterSourceMapURLInlineFetched(t, smc, fcc, fc, existing) ==
  LET ref == SourceMappingURL(t.content, t.header)
      target == IF ref.kind = "data" THEN <<"d", "a", "t", "a", ":">> ELSE ref.target
      sourceMapUrl == resolveUrl(t.loc.url, target)
      r == RetrieveFileWithHeaders(sourceMapUrl, fcc, fc, existing)
  IN  IF ref = NoRef THEN NegativeResult(t, smc, fcc, fc)
      ELSE IF r.kind = "read"
           THEN Eff([t EXCEPT !.pc = "fetchMap", !.path = r.path,
                              !.mapUrl = sourceMapUrl, !.nfetch = @ + 1],
                    smc, r.fcc, r.fc)
           ELSE IF r.kind = "absent"
           THEN Eff([t EXCEPT !.pc = "haveMap", !.path = r.path, !.content = NullContent,
                              !.mapUrl = sourceMapUrl, !.nfetch = @ + 1,
                              !.wrote = TRUE, !.stepFailed = TRUE],
                    smc, r.fcc, r.fc)
           ELSE Eff([t EXCEPT !.pc = "haveMap", !.path = r.path,
                              !.content = r.content, !.mapUrl = sourceMapUrl],
                    smc, r.fcc, r.fc)

\* Lines 107-134 of retrieveSourceMap, from the return of
\* retrieveSourceMapURL to the next await
AfterSourceMapURL(t, smc, fcc, fc, existing) ==
  LET ref == SourceMappingURL(t.content, t.header)
  IN  IF ref = NoRef THEN NegativeResult(t, smc, fcc, fc)
      ELSE IF ref.kind = "data"
      THEN IF ref.base64 /\ ref.payload # ""
           THEN ParseMapData(t, ref.payload, t.loc.url, smc, fcc, fc)
           ELSE IF ref.payload = "badescape"
                THEN Eff([Caught(t) EXCEPT !.stepFailed = TRUE, !.lookupFailed = TRUE],
                         smc, fcc, fc)
                ELSE ParseMapData(t, ref.payload, t.loc.url, smc, fcc, fc)
      ELSE LET sourceMapUrl == resolveUrl(t.loc.url, ref.target)
               r == RetrieveFileWithHeaders(sourceMapUrl, fcc, fc, existing)
           IN  IF r.kind = "read"
               THEN Eff([t EXCEPT !.pc = "fetchMap", !.path = r.path,
                                  !.mapUrl = sourceMapUrl, !.nfetch = @ + 1],
                        smc, r.fcc, r.fc)
               ELSE IF r.kind = "absent"
               THEN Eff([t EXCEPT !.pc = "haveMap", !.path = r.path, !.content = NullContent,
                                  !.mapUrl = sourceMapUrl, !.nfetch = @ + 1,
                                  !.wrote = TRUE, !.stepFailed = TRUE],
                        smc, r.fcc, r.fc)
               ELSE Eff([t EXCEPT !.pc = "haveMap", !.path = r.path,
                                  !.content = r.content, !.mapUrl = sourceMapUrl],
                        smc, r.fcc, r.fc)

\* Lines 129-153 of retrieveSourceMap, from the return of retrieveFile
AfterRetrieveFile(t, smc, fcc, fc) ==
  IF t.content = NullContent THEN NegativeResult(t, smc, fcc, fc)
  ELSE IF t.content.type # "text"
       THEN NegativeResult([t EXCEPT !.stepFailed = TRUE], smc, fcc, fc)
       ELSE ParseMapData(t, t.content.text, t.mapUrl, smc, fcc, fc)

\* Lines 143-153 of retrieveSourceMap and lines 45-66 of resolveLocation:
\* the consumer is built (a positive entry) or rejects (a negative entry)
AfterConsumer(t, smc, fcc, fc) ==
  IF t.data = "map"
  THEN Eff([PositionLookup(t, t.mapUrl) EXCEPT !.wrote = TRUE],
           MapSet(smc, t.loc.url, [url |-> t.mapUrl, map |-> "map"]), fcc, fc)
  ELSE NegativeResult([t EXCEPT !.stepFailed = TRUE], smc, fcc, fc)

\* resolveLocation from its call to its first await
StartResolveLocation(t, smc, fcc, fc, existing) ==
  IF ~isMinifiedJavaScript(t.loc.url) THEN Eff(ReturnDefault(t), smc, fcc, fc)
  ELSE IF t.loc.url \in DOMAIN smc /\ smc[t.loc.url].map # Null
       THEN Eff(FromCachedConsumer(t), smc, fcc, fc)
       ELSE LET r == RetrieveFileWithHeaders(t.loc.url, fcc, fc, existing)
            IN  IF r.kind = "read"
                THEN Eff([t EXCEPT !.pc = "fetchJs", !.path = r.path, !.nfetch = @ + 1],
                         smc, r.fcc, r.fc)
                ELSE IF r.kind = "absent"
                THEN Eff([t EXCEPT !.pc = "haveJs", !.path = r.path, !.content = NullContent,
                                   !.nfetch = @ + 1, !.wrote = TRUE, !.stepFailed = TRUE],
                         smc, r.fcc, r.fc)
                ELSE Eff([t EXCEPT !.pc = "haveJs", !.path = r.path,
                                   !.content = r.content, !.header = NoRef],
                         smc, r.fcc, r.fc)

\* ------------------------------------------------------------------------
\* SourceMapResolver: operations
\* ------------------------------------------------------------------------

\* The local paths of the model: "/d/b.bundle.js", and the path resolveUrl
\* gives the map of U_FileUrl
LocalJsPaths == {P_Bundle}
LocalMapPaths == {resolveUrl(U_FileUrl, RelMap)}

InProgress(ts) == \E i \in 1..Len(ts) : ts[i].pc # "done"

\* The locators of which a call has ended with retrieveSourceMap failing
FailedLocators(ts) ==
  {ts[i].loc.url : i \in {j \in 1..Len(ts) : ts[j].pc = "done" /\ ts[j].lookupFailed}}

\* The resolveLocations call: its input, the tasks first..first+n-1 of its
\* entries, the value it returned; order (the entries as they settled) and
\* outOfOrder are history
IdleBatch == [state |-> "idle", locs |-> <<>>, first |-> 0, n |-> 0, results |-> <<>>,
              order |-> <<>>, outOfOrder |-> FALSE]

ResolverInit ==
  /\ sourceMapCache = EmptyMap
  /\ fileContentsCache = EmptyMap
  /\ locationsMap = EmptyMap
  /\ tasks = <<>>
  /\ batch = IdleBatch
  /\ fetchCount = EmptyMap

\* resolveLocation from its call to its first await; existing are the local
\* files existsSync finds
Call(loc, existing) ==
  /\ LET e == StartResolveLocation(NewTask(loc, FALSE, loc.url \in FailedLocators(tasks)),
                                   sourceMapCache, fileContentsCache, fetchCount, existing)
     IN  /\ tasks' = Append(tasks, e.task)
         /\ sourceMapCache' = e.smc
         /\ fileContentsCache' = e.fcc
         /\ fetchCount' = e.fc
  /\ UNCHANGED <<locationsMap, batch>>
  /\ UNCHANGED analyzerVars

\* A direct call of resolveLocation
ResolveLocation(loc, existing) ==
  /\ Len(tasks) < MaxTasks
  /\ Call(loc, existing)

\* A call of resolveLocation made when no other call is in progress
ResolveLocationAlone(loc, existing) ==
  /\ Len(tasks) < MaxCalls
  /\ ~InProgress(tasks)
  /\ Call(loc, existing)

\* The callbacks of resolveLocations run one after the other, each up to its
\* first await, before anything else does: entry k of locs on the state the
\* entries before it left. An entry without a line or a column whose locator
\* is in locationsMap returns the stored location.
RECURSIVE StartEntries(_, _, _)
StartEntries(S, locs, k) ==
  IF k > Len(locs) THEN S
  ELSE LET loc == locs[k]
           t0  == NewTask(loc, TRUE, loc.url \in FailedLocators(S.tasks))
       IN  IF (loc.line = 0 \/ loc.column = 0) /\ loc.url \in DOMAIN S.lm
           THEN StartEntries(
                  [S EXCEPT !.tasks = Append(@, [t0 EXCEPT !.pc = "done", !.outcome = "value",
                                                          !.result = S.lm[loc.url],
                                                          !.settled = TRUE, !.memo = TRUE]),
                            !.order = Append(@, Len(S.tasks) + 1)],
                  locs, k + 1)
           ELSE LET e == StartResolveLocation(t0, S.smc, S.fcc, S.fc, S.files)
                IN  StartEntries(
                      [S EXCEPT !.tasks = Append(@, e.task), !.smc = e.smc, !.fcc = e.fcc,
                                !.fc = e.fc],
                      locs, k + 1)

BatchLists ==
  UNION { [1..n -> Locations] : n \in 0..MaxBatch }

\* A call of resolveLocations, up to the await of Promise.all
ResolveLocations(locs, existing) ==
  /\ batch.state # "pending"
  /\ Len(tasks) + Len(locs) <= MaxTasks
  /\ LET S == StartEntries([tasks |-> tasks, smc |-> sourceMapCache,
                            fcc |-> fileContentsCache, fc |-> fetchCount,
                            lm |-> locationsMap, files |-> existing,
                            order |-> <<>>], locs, 1)
     IN  /\ tasks' = S.tasks
         /\ sourceMapCache' = S.smc
         /\ fileContentsCache' = S.fcc
         /\ fetchCount' = S.fc
         /\ batch' = [state |-> "pending", locs |-> locs, first |-> Len(tasks) + 1,
                      n |-> Len(locs), results |-> <<>>, order |-> S.order,
                      outOfOrder |-> FALSE]
  /\ UNCHANGED locationsMap
  /\ UNCHANGED analyzerVars

\* What the read a task waits for can answer: fetch gives content with or
\* without a SourceMap header, a status that is not ok, or throws; readFile
\* gives content or throws
Responses(t) ==
  LET ok == IF t.pc = "fetchJs" THEN JsResponses ELSE MapResponses
  IN  IF StartsWith(t.path, Http) THEN ok \cup FailedResponses
      ELSE {r \in ok : r.sourceMapUrl = NoRef}
             \cup {r \in FailedResponses : r.status = "throws"}

\* Lines 192-206 of retrieveFileWithHeaders: the read answers, the content
\* (null when it failed) is stored and returned
ReadAnswers(i, resp) ==
  /\ i \in 1..Len(tasks)
  /\ tasks[i].pc \in {"fetchJs", "fetchMap"}
  /\ resp \in Responses(tasks[i])
  /\ fileContentsCache' = MapSet(fileContentsCache, tasks[i].path, resp.content)
  /\ tasks' = [tasks EXCEPT ![i] =
                 [@ EXCEPT !.pc = IF @ = "fetchJs" THEN "haveJs" ELSE "haveMap",
                           !.content = resp.content,
                           !.header = resp.sourceMapUrl,
                           !.wrote = TRUE,
                           !.stepFailed = (@ \/ resp.status # "ok")]]
  /\ UNCHANGED <<sourceMapCache, locationsMap, batch, fetchCount>>
  /\ UNCHANGED analyzerVars

\* One step of an invocation that was suspended with what it awaited ready
Continue(i, existing) ==
  /\ i \in 1..Len(tasks)
  /\ tasks[i].pc \in {"haveJs", "haveMap", "consumer"}
  /\ LET t == tasks[i]
         e == IF t.pc = "haveJs"
              THEN AfterSourceMapURL(t, sourceMapCache, fileContentsCache, fetchCount, existing)
              ELSE IF t.pc = "haveMap"
              THEN AfterRetrieveFile(t, sourceMapCache, fileContentsCache, fetchCount)
              ELSE AfterConsumer(t, sourceMapCache, fileContentsCache, fetchCount)
     IN  /\ tasks' = [tasks EXCEPT ![i] = e.task]
         /\ sourceMapCache' = e.smc
         /\ fileContentsCache' = e.fcc
         /\ fetchCount' = e.fc
  /\ UNCHANGED <<locationsMap, batch>>
  /\ UNCHANGED analyzerVars

\* Lines 80-93 of resolveLocations: the callback of an entry resumes after
\* its resolveLocation; a value is stored in locationsMap and returned, an
\* error is turned into an unresolved location
EntrySettles(i) ==
  /\ i \in 1..Len(tasks)
  /\ tasks[i].inBatch /\ tasks[i].pc = "done" /\ ~tasks[i].settled
  /\ IF tasks[i].outcome = "value"
     THEN /\ locationsMap' = MapSet(locationsMap, tasks[i].loc.url, tasks[i].result)
          /\ tasks' = [tasks EXCEPT ![i].settled = TRUE]
     ELSE /\ locationsMap' = locationsMap
          /\ tasks' = [tasks EXCEPT ![i].settled = TRUE, ![i].outcome = "value",
                                    ![i].result = DefaultResult(tasks[i].loc)]
  /\ batch' = [batch EXCEPT !.order = Append(@, i)]
  /\ UNCHANGED <<sourceMapCache, fileContentsCache, fetchCount>>
  /\ UNCHANGED analyzerVars

\* The entries of a batch in the order in which they settled
GatherByCompletion(ts, b) == [k \in 1..b.n |-> ts[b.order[k]].result]

\* Promise.all: the value of entry k of the input at place k
Gather(ts, b) == [k \in 1..b.n |-> ts[b.first + k - 1].result]

\* Promise.all resolves once every callback has returned
ResolveLocationsReturns ==
  /\ batch.state = "pending"
  /\ \A k \in 1..batch.n : tasks[batch.first + k - 1].settled
  /\ batch' = [batch EXCEPT !.state = "returned", !.results = Gather(tasks, batch),
                             !.order = <<>>,
                             !.outOfOrder = (batch.order # [k \in 1..batch.n |->
                                                             batch.first + k - 1])]
  /\ UNCHANGED <<sourceMapCache, fileContentsCache, locationsMap, tasks, fetchCount>>
  /\ UNCHANGED analyzerVars

ResolverNext ==
  \/ \E loc \in Locations, existing \in SUBSET LocalJsPaths : ResolveLocation(loc, existing)
  \/ \E locs \in BatchLists, existing \in SUBSET LocalJsPaths : ResolveLocations(locs, existing)
  \/ \E i \in 1..MaxTasks : \E resp \in JsResponses \cup MapResponses \cup FailedResponses :
       ReadAnswers(i, resp)
  \/ \E i \in 1..MaxTasks, existing \in SUBSET LocalMapPaths : Continue(i, existing)
  \/ \E i \in 1..MaxTasks : EntrySettles(i)
  \/ ResolveLocationsReturns

\* The calls of a run are made one after the other, each after the one before
\* it has ended
SequentialNext ==
  \/ \E loc \in Locations, existing \in SUBSET LocalJsPaths : ResolveLocationAlone(loc, existing)
  \/ \E i \in 1..MaxCalls : \E resp \in JsResponses \cup MapResponses \cup FailedResponses :
       ReadAnswers(i, resp)
  \/ \E i \in 1..MaxCalls, existing \in SUBSET LocalMapPaths : Continue(i, existing)

\* ------------------------------------------------------------------------
\* The analyzer (analyzer.ts): profiles
\* ------------------------------------------------------------------------

\* A JavaScript number is a number, NaN or undefined. An optional field of
\* the profile that the code only tests with || or && is 0 when absent:
\* the code takes 0 and undefined the same way there.
Number(n) == [kind |-> "number", n |-> n]
NaN == [kind |-> "NaN", n |-> 0]
UndefinedNumber == [kind |-> "undefined", n |-> 0]

\* a + b
Plus(a, b) ==
  IF a.kind = "number" /\ b.kind = "number" THEN Number(a.n + b.n) ELSE NaN

\* a || 0
OrZero(a) == IF a.kind = "number" THEN a.n ELSE 0

\* Math.round(n / d) for d > 0: halves go up
MathRound(n, d) == (2 * n + d) \div (2 * d)

\* n / d, kept as the pair
Ratio(n, d) == [num |-> n, den |-> d]

N_Main == <<"m", "a", "i", "n">>
N_Root == <<"(", "r", "o", "o", "t", ")">>
N_Idle == <<"(", "i", "d", "l", "e", ")">>
N_Anonymous == <<"(", "a", "n", "o", "n", "y", "m", "o", "u", "s", ")">>
N_Unknown == <<"u", "n", "k", "n", "o", "w", "n">>
N_UnknownUrl == <<"(", "u", "n", "k", "n", "o", "w", "n", ")">>

U_NativeDummy == <<"n", "a", "t", "i", "v", "e", " ", "d", "u", "m", "m", "y", ".", "j", "s">>
LighthouseEval == <<"_", "l", "i", "g", "h", "t", "h", "o", "u", "s", "e", "-", "e", "v", "a", "l", ".", "j", "s">>

\* A script of Lighthouse, and a file named as the sentinel in a directory
U_Lighthouse == <<"h", "/">> \o LighthouseEval
U_NativeDir == <<"/">> \o U_NativeDummy

CallFrame(functionName, url, lineNumber, columnNumber) ==
  [functionName |-> functionName, url |-> url, lineNumber |-> lineNumber,
   columnNumber |-> columnNumber]

\* "main" at http://h/a.min.js:1:5, an anonymous function at the top of
\* /src/a.min.js, and the root
F_Main == CallFrame(N_Main, U_HttpMin, 0, 4)
F_Anon == CallFrame(<<>>, U_Src, 0, 0)
F_Root == CallFrame(N_Root, <<>>, 0, 0)

\* A CPUProfileNode; hitCount is what the raw profile carries, selfTime and
\* totalTime are the fields analyzeCPUProfileData adds
Node(id, callFrame, children, hitCount) ==
  [id |-> id, callFrame |-> callFrame, children |-> children, hitCount |-> hitCount,
   selfTime |-> UndefinedNumber, totalTime |-> UndefinedNumber]

\* main calling the anonymous function
ChainNodes == <<Node(1, F_Main, <<2>>, UndefinedNumber), Node(2, F_Anon, <<>>, UndefinedNumber)>>

\* Node lists: none, one node, a tree listed parents first and children
\* first, a tree whose raw nodes carry hit counts, two nodes with one id,
\* lists with frames that the exclusion rules name (a Lighthouse script,
\* the idle marker, the V8 sentinel file) and a file in a directory that
\* has the sentinel's name, and a list that is no tree: a node that lists
\* itself, two nodes that list each other, a child of two parents and
\* children that name no node
NodeLists ==
  { <<>>,
    <<Node(1, F_Main, <<>>, UndefinedNumber)>>,
    <<Node(1, F_Root, <<2, 3>>, UndefinedNumber), Node(2, F_Main, <<>>, UndefinedNumber),
      Node(3, F_Anon, <<>>, UndefinedNumber)>>,
    <<Node(3, F_Anon, <<>>, UndefinedNumber), Node(2, F_Main, <<3>>, UndefinedNumber),
      Node(1, F_Root, <<2>>, UndefinedNumber)>>,
    <<Node(1, F_Root, <<2>>, Number(0)), Node(2, F_Main, <<3>>, Number(4)),
      Node(3, F_Anon, <<>>, Number(7))>>,
    <<Node(1, F_Main, <<>>, UndefinedNumber), Node(1, F_Anon, <<>>, UndefinedNumber)>>,
    <<Node(1, CallFrame(N_Main, U_Lighthouse, 0, 0), <<>>, UndefinedNumber),
      Node(2, F_Main, <<>>, UndefinedNumber),
      Node(3, CallFrame(N_Idle, <<>>, 0, 0), <<>>, UndefinedNumber)>>,
    <<Node(1, CallFrame(N_Main, U_NativeDummy, 0, 0), <<>>, UndefinedNumber),
      Node(2, CallFrame(N_Main, U_NativeDir, 0, 0), <<>>, UndefinedNumber),
      Node(3, F_Anon, <<>>, UndefinedNumber)>>,
    <<Node(1, F_Main, <<2, 1, 3>>, UndefinedNumber), Node(2, F_Anon, <<1, 3, 9>>, UndefinedNumber),
      Node(3, F_Main, <<8, 9>>, UndefinedNumber)>> }

\* Sample streams over the ids 1..3
RECURSIVE SampleLists(_)
SampleLists(n) ==
  IF n = 0 THEN {<<>>}
  ELSE LET S == SampleLists(n - 1)
       IN  S \cup {Append(s, id) : s \in {t \in S : Len(t) = n - 1}, id \in 1..3}

\* Time deltas in microseconds, repeated or cut to the length of the sample
\* stream
DeltaLists == {<<0, 600, 900>>, <<100, 1500, -700>>, <<0, -300, 2500>>}

TimeDeltas(d, n) == [i \in 1..n |-> d[((i - 1) % Len(d)) + 1]]

CPUProfile(hasNodes, nodes, hasSamples, samples, hasTimeDeltas, timeDeltas, startTime, endTime, sampleInterval) ==
  [hasNodes |-> hasNodes, nodes |-> nodes, hasSamples |-> hasSamples, samples |-> samples,
   hasTimeDeltas |-> hasTimeDeltas, timeDeltas |-> timeDeltas, startTime |-> startTime,
   endTime |-> endTime, sampleInterval |-> sampleInterval, readable |-> TRUE]

\* The profiles of the model: every sample stream and time deltas over the
\* chain (3 is an id without a node), every node list with two streams,
\* profiles with the optional fields, and profiles that lack an array
SampledProfiles ==
  {CPUProfile(TRUE, ChainNodes, TRUE, s, TRUE, TimeDeltas(d, Len(s)), 0, 0, 0) :
     s \in SampleLists(MaxSamples), d \in DeltaLists}
    \cup {CPUProfile(TRUE, ChainNodes, TRUE, <<1, 1, 2>>, TRUE, <<0, 100, 200>>, 0, 0, 0)}

TreeProfiles ==
  {CPUProfile(TRUE, ns, TRUE, s, TRUE, TimeDeltas(<<0, 600, 900>>, Len(s)), 0, 0, 0) :
     ns \in NodeLists, s \in {<<1, 2, 1>>, <<3, 2>>}}

TimedProfiles ==
  {CPUProfile(TRUE, ChainNodes, TRUE, <<1, 2, 1>>, TRUE, <<0, 600, 900>>, st, st + 5000000, si) :
     st \in {0, 1000000}, si \in {0, 250}}

MalformedProfiles ==
  { CPUProfile(FALSE, <<>>, TRUE, <<1>>, TRUE, <<0>>, 0, 0, 0),
    CPUProfile(TRUE, ChainNodes, FALSE, <<>>, TRUE, <<0>>, 0, 0, 0),
    CPUProfile(FALSE, <<>>, FALSE, <<>>, FALSE, <<>>, 0, 0, 0),
    CPUProfile(TRUE, ChainNodes, TRUE, <<1, 2, 1>>, FALSE, <<>>, 0, 0, 0),
    CPUProfile(TRUE, <<>>, TRUE, <<>>, FALSE, <<>>, 0, 0, 0) }

\* A profile with more functions than topFunctions keeps: 22 functions of
\* one file, each with a hit count in the raw profile, six of them sampled
WideProfile ==
  CPUProfile(TRUE, [k \in 1..22 |-> Node(k, CallFrame(N_Main, U_Src, k, 0), <<>>, Number(k))], TRUE, <<3, 9, 3, 17, 22, 5, 12>>, TRUE, <<0, 2000, 700, 4000, 1600, 3000, 5000>>, 0, 0, 0)

\* A profile whose three functions take "33.00", "31.21" and "5.79" percent
\* of the time, "70.00" together, the rest going to an id without a node
BoundaryProfile ==
  CPUProfile(TRUE, ChainNodes \o <<Node(3, CallFrame(N_Main, U_NativeDir, 0, 0), <<>>, UndefinedNumber)>>, TRUE, <<1, 2, 3, 4, 4>>, TRUE, <<0, 3300, 3121, 579, 3000>>, 0, 0, 0)

\* A profile file that cannot be read or parsed
Unreadable ==
  [CPUProfile(FALSE, <<>>, FALSE, <<>>, FALSE, <<>>, 0, 0, 0) EXCEPT !.readable = FALSE]

Profiles ==
  SampledProfiles \cup TreeProfiles \cup TimedProfiles \cup MalformedProfiles
    \cup {WideProfile, BoundaryProfile, Unreadable}

\* ------------------------------------------------------------------------
\* The analyzer: sample aggregation and the call tree
\* ------------------------------------------------------------------------

\* nodeById.get(id): the place in nodes of the last node with that id (a
\* later set replaces an earlier one), 0 when there is none
NodeIndex(nodes, id) ==
  LET K == {k \in 1..Len(nodes) : nodes[k].id = id}
  IN  IF K = {} THEN 0 ELSE CHOOSE k \in K : \A j \in K : j <= k

\* The push without the test of lines 182 and 193: the running time is
\* pushed as it is
PushSampleUnclamped(S, nodeId) ==
  [S EXCEPT !.collapsedSamples = Append(@, nodeId),
            !.sampleTimes = Append(@, S.elapsed),
            !.lastValidElapsed = S.elapsed]

\* Lines 181-187 and 192-198: push the node with the sample time, which
\* never goes back
PushSample(S, nodeId) ==
  IF S.elapsed < S.lastValidElapsed
  THEN [S EXCEPT !.collapsedSamples = Append(@, nodeId),
                 !.sampleTimes = Append(@, S.lastValidElapsed)]
  ELSE [S EXCEPT !.collapsedSamples = Append(@, nodeId),
                 !.sampleTimes = Append(@, S.elapsed),
                 !.lastValidElapsed = S.elapsed]

\* The loop with the flush of the last sample pushing the id of that sample
RECURSIVE SamplesLoopFlushCurrent(_, _, _, _)
SamplesLoopFlushCurrent(samples, timeDeltas, i, S) ==
  IF i > Len(samples) THEN S
  ELSE LET nodeId == samples[i]
           S1 == IF S.lastNodeIdIsNaN \/ nodeId # S.lastNodeId
                 THEN PushSample(S, nodeId) ELSE S
           S2 == IF i = Len(samples)
                 THEN IF ~S1.lastNodeIdIsNaN THEN PushSample(S1, nodeId) ELSE S1
                 ELSE [S1 EXCEPT !.elapsed = @ + timeDeltas[i + 1],
                                 !.lastNodeId = nodeId,
                                 !.lastNodeIdIsNaN = FALSE]
       IN  SamplesLoopFlushCurrent(samples, timeDeltas, i + 1, S2)

\* The loop without the test of line 180: every sample is pushed
RECURSIVE SamplesLoopNoCollapse(_, _, _, _)
SamplesLoopNoCollapse(samples, timeDeltas, i, S) ==
  IF i > Len(samples) THEN S
  ELSE LET nodeId == samples[i]
           S1 == PushSample(S, nodeId)
           S2 == IF i = Len(samples)
                 THEN IF ~S1.lastNodeIdIsNaN THEN PushSample(S1, S1.lastNodeId) ELSE S1
                 ELSE [S1 EXCEPT !.elapsed = @ + timeDeltas[i + 1],
                                 !.lastNodeId = nodeId,
                                 !.lastNodeIdIsNaN = FALSE]
       IN  SamplesLoopNoCollapse(samples, timeDeltas, i + 1, S2)

\* The loop of processSamplesSpeedscope from sample i on (i counts from 1)
RECURSIVE SamplesLoop(_, _, _, _)
SamplesLoop(samples, timeDeltas, i, S) ==
  IF i > Len(samples) THEN S
  ELSE LET nodeId == samples[i]
           S1 == IF S.lastNodeIdIsNaN \/ nodeId # S.lastNodeId
                 THEN PushSample(S, nodeId) ELSE S
           S2 == IF i = Len(samples)
                 THEN IF ~S1.lastNodeIdIsNaN THEN PushSample(S1, S1.lastNodeId) ELSE S1
                 ELSE [S1 EXCEPT !.elapsed = @ + timeDeltas[i + 1],
                                 !.lastNodeId = nodeId,
                                 !.lastNodeIdIsNaN = FALSE]
       IN  SamplesLoop(samples, timeDeltas, i + 1, S2)

\* processSamplesSpeedscope on time deltas that are present, one for each
\* sample
processSamplesSpeedscope(samples, timeDeltas) ==
  LET e == IF timeDeltas = <<>> THEN 0 ELSE timeDeltas[1]
      S == SamplesLoop(samples, timeDeltas, 1,
                       [collapsedSamples |-> <<>>, sampleTimes |-> <<>>, elapsed |-> e,
                        lastValidElapsed |-> e, lastNodeId |-> 0, lastNodeIdIsNaN |-> TRUE])
  IN  [collapsedSamples |-> S.collapsedSamples, sampleTimes |-> S.sampleTimes]

\* map.get(key) || 0
GetOrZero(map, key) == IF key \in DOMAIN map THEN map[key] ELSE 0

\* Lines 83-91 with the bound of the last sample off by one
RECURSIVE AccumulateShort(_, _, _, _)
AccumulateShort(collapsedSamples, sampleTimes, i, M) ==
  IF i > Len(collapsedSamples) THEN M
  ELSE LET nodeId == collapsedSamples[i]
           timeDelta == IF i < Len(sampleTimes) - 1
                        THEN sampleTimes[i + 1] - sampleTimes[i] ELSE 0
       IN  AccumulateShort(collapsedSamples, sampleTimes, i + 1,
                           [selfTimes |-> MapSet(M.selfTimes, nodeId,
                                                 GetOrZero(M.selfTimes, nodeId) + timeDelta),
                            hitCounts |-> MapSet(M.hitCounts, nodeId,
                                                 GetOrZero(M.hitCounts, nodeId) + 1)])

\* Lines 83-91: the time from each collapsed sample to the next goes to its
\* node, the last sample gets 0; M = [selfTimes, hitCounts]
RECURSIVE Accumulate(_, _, _, _)
Accumulate(collapsedSamples, sampleTimes, i, M) ==
  IF i > Len(collapsedSamples) THEN M
  ELSE LET nodeId == collapsedSamples[i]
           timeDelta == IF i < Len(sampleTimes) THEN sampleTimes[i + 1] - sampleTimes[i] ELSE 0
       IN  Accumulate(collapsedSamples, sampleTimes, i + 1,
                      [selfTimes |-> MapSet(M.selfTimes, nodeId,
                                            GetOrZero(M.selfTimes, nodeId) + timeDelta),
                       hitCounts |-> MapSet(M.hitCounts, nodeId,
                                            GetOrZero(M.hitCounts, nodeId) + 1)])

\* Lines 93-99: the node nodeById holds for a sampled id gets its self time
\* and hit count; a sampled id without a node is passed over
AssignTimes(nodes, M) ==
  [k \in 1..Len(nodes) |->
     IF nodes[k].id \in DOMAIN M.selfTimes /\ NodeIndex(nodes, nodes[k].id) = k
     THEN [nodes[k] EXCEPT !.selfTime = Number(M.selfTimes[nodes[k].id]),
                           !.hitCount = Number(GetOrZero(M.hitCounts, nodes[k].id))]
     ELSE nodes[k]]

\* Line 101
TotalTime(sampleTimes) ==
  IF Len(sampleTimes) > 0 THEN sampleTimes[Len(sampleTimes)] - sampleTimes[1] ELSE 0

\* calculateTotal and the loop over the children of a node; T = [nodes,
\* visited, total, expanded], total being the value returned and expanded
\* the ids that passed the test of line 213, in that order (history)
RECURSIVE calculateTotal(_, _)
RECURSIVE SumChildren(_, _, _)
calculateTotal(T, nodeId) ==
  IF nodeId \in T.visited THEN [T EXCEPT !.total = Number(0)]
  ELSE LET k == NodeIndex(T.nodes, nodeId)
           V == [T EXCEPT !.visited = @ \cup {nodeId}, !.expanded = Append(@, nodeId)]
       IN  IF k = 0 THEN [V EXCEPT !.total = Number(0)]
           ELSE LET R == SumChildren([V EXCEPT !.total = T.nodes[k].selfTime],
                                     T.nodes[k].children, 1)
                IN  [R EXCEPT !.nodes[k].totalTime = R.total]

SumChildren(T, children, j) ==
  IF j > Len(children) THEN T
  ELSE LET C == calculateTotal(T, children[j])
       IN  SumChildren([C EXCEPT !.total = Plus(T.total, C.total)], children, j + 1)

\* The loop with a visited set of its own for each node of the list
RECURSIVE TotalsFromVisitedPerNode(_, _)
TotalsFromVisitedPerNode(T, k) ==
  IF k > Len(T.nodes) THEN T
  ELSE TotalsFromVisitedPerNode(calculateTotal([T EXCEPT !.visited = {}], T.nodes[k].id), k + 1)

\* nodeById.forEach of calculateTotalTimesSpeedscope, from node k of the list
RECURSIVE TotalsFrom(_, _)
TotalsFrom(T, k) ==
  IF k > Len(T.nodes) THEN T
  ELSE TotalsFrom(IF T.nodes[k].id \in T.visited THEN T
                  ELSE calculateTotal(T, T.nodes[k].id), k + 1)

\* The nodes with their total times, and the ids in the order in which they
\* were expanded
calculateTotalTimesSpeedscope(nodes) ==
  TotalsFrom([nodes |-> nodes, visited |-> {}, total |-> Number(0), expanded |-> <<>>], 1)

\* ------------------------------------------------------------------------
\* The analyzer: top functions
\* ------------------------------------------------------------------------

\* .slice(0, 20) of the sorted functions
TopFunctionsLimit == 20
\* .slice(0, 10) of the top functions in the report
HighImpactLimit == 10
\* .slice(0, 15) of the script events
ScriptAnalysisLimit == 15
\* sampleInterval when the profile has none
DefaultSampleInterval == 1000

\* The filter without the test of the Lighthouse script
shouldIgnoreFunctionSpeedscope(callFrame) ==
  \/ callFrame.url = U_NativeDummy
  \/ callFrame.functionName = N_Root
  \/ callFrame.functionName = N_Idle

\* Lines 238-252
shouldIgnoreFunction(callFrame) ==
  \/ callFrame.url = U_NativeDummy
  \/ (callFrame.url # <<>> /\ Includes(callFrame.url, LighthouseEval))
  \/ callFrame.functionName = N_Root
  \/ callFrame.functionName = N_Idle

\* The decimal digits of n >= 0
RECURSIVE Digits(_)
Digits(n) ==
  LET d == <<"0", "1", "2", "3", "4", "5", "6", "7", "8", "9">>[(n % 10) + 1]
  IN  IF n < 10 THEN <<d>> ELSE Append(Digits(n \div 10), d)

\* `${n}`
NumberToString(n) == IF n < 0 THEN <<"-">> \o Digits(0 - n) ELSE Digits(n)

\* url.split('/').pop() || 'unknown'
LastSegmentOrUnknown(url) ==
  LET seg == SubSeq(url, LastSlash(url) + 1, Len(url))
  IN  IF seg = <<>> THEN N_Unknown ELSE seg

getDisplayName(callFrame) ==
  IF callFrame.functionName # <<>> THEN callFrame.functionName
  ELSE IF callFrame.url # <<>>
       THEN LET line == IF callFrame.lineNumber # 0 THEN callFrame.lineNumber + 1 ELSE 0
            IN  <<"(", "a", "n", "o", "n", "y", "m", "o", "u", "s", " ">> \o LastSegmentOrUnknown(callFrame.url) \o <<":">> \o NumberToString(line) \o <<")">>
       ELSE N_Anonymous

\* Array.from(nodeById.values()): one node for each id, the last listed, in
\* the order in which the ids first occur
RECURSIVE NodeValues(_, _)
NodeValues(nodes, k) ==
  IF k > Len(nodes) THEN <<>>
  ELSE IF \E j \in 1..(k - 1) : nodes[j].id = nodes[k].id
       THEN NodeValues(nodes, k + 1)
       ELSE <<nodes[NodeIndex(nodes, nodes[k].id)]>> \o NodeValues(nodes, k + 1)

\* The filter of lines 113-116
IsCandidate(node) ==
  /\ node.hitCount.kind = "number"
  /\ node.hitCount.n # 0
  /\ ~shouldIgnoreFunction(node.callFrame)

RECURSIVE Filter(_)
Filter(nodes) ==
  IF nodes = <<>> THEN <<>>
  ELSE (IF IsCandidate(Head(nodes)) THEN <<Head(nodes)>> ELSE <<>>) \o Filter(Tail(nodes))

\* The sort with the comparator turned round: ascending
RECURSIVE InsertBySelfTimeAscending(_, _)
InsertBySelfTimeAscending(sorted, node) ==
  IF sorted = <<>> THEN <<node>>
  ELSE IF OrZero(Head(sorted).selfTime) <= OrZero(node.selfTime)
       THEN <<Head(sorted)>> \o InsertBySelfTimeAscending(Tail(sorted), node)
       ELSE <<node>> \o sorted

\* Array.prototype.sort by (b.selfTime || 0) - (a.selfTime || 0): descending
\* and stable
RECURSIVE InsertBySelfTime(_, _)
InsertBySelfTime(sorted, node) ==
  IF sorted = <<>> THEN <<node>>
  ELSE IF OrZero(Head(sorted).selfTime) >= OrZero(node.selfTime)
       THEN <<Head(sorted)>> \o InsertBySelfTime(Tail(sorted), node)
       ELSE <<node>> \o sorted

RECURSIVE SortBySelfTime(_)
SortBySelfTime(nodes) ==
  IF nodes = <<>> THEN <<>>
  ELSE InsertBySelfTime(SortBySelfTime(SubSeq(nodes, 1, Len(nodes) - 1)), nodes[Len(nodes)])

\* .slice(0, n)
Slice(seq, n) == SubSeq(seq, 1, IF Len(seq) < n THEN Len(seq) ELSE n)

\* The percentage taken of the total in milliseconds that rawData holds
ToFixed2PercentOfMilliseconds(n, d) ==
  ((n * 10000) \div d) * 1000 + MathRound(((n * 10000) % d) * 1000, d)

\* (n / d * 100).toFixed(2) as the number of hundredths it shows: "12.50"
\* is 1250
ToFixed2Percent(n, d) == MathRound(n * 10000, d)

\* Lines 120-129; percentage is in hundredths of a percent, isSourceMapped
\* is Undefined until resolveSourceMapsForTopFunctions has set it
AggregatedFunction(node, totalTime) ==
  [functionName |-> getDisplayName(node.callFrame),
   url |-> IF node.callFrame.url # <<>> THEN node.callFrame.url ELSE N_UnknownUrl,
   lineNumber |-> node.callFrame.lineNumber + 1,
   columnNumber |-> node.callFrame.columnNumber + 1,
   selfTime |-> MathRound(OrZero(node.selfTime), 1000),
   totalTime |-> MathRound(OrZero(node.totalTime), 1000),
   hitCount |-> OrZero(node.hitCount),
   percentage |-> IF totalTime > 0 THEN ToFixed2Percent(OrZero(node.selfTime), totalTime) ELSE 0,
   isSourceMapped |-> Undefined,
   originalFile |-> <<>>, originalLine |-> 0, originalColumn |-> 0, originalName |-> Undefined]

\* Lines 112-129
TopFunctions(nodes, totalTime) ==
  LET sortedFunctions == Slice(SortBySelfTime(Filter(NodeValues(nodes, 1))), TopFunctionsLimit)
  IN  [k \in 1..Len(sortedFunctions) |-> AggregatedFunction(sortedFunctions[k], totalTime)]

\* Lines 102-107
RawData(profile, totalTime) ==
  [totalSamples |-> Len(profile.samples),
   totalTime |-> Ratio(totalTime, 1000),
   sampleInterval |-> Ratio(IF profile.sampleInterval # 0 THEN profile.sampleInterval
                            ELSE DefaultSampleInterval, 1000),
   duration |-> IF profile.endTime # 0 /\ profile.startTime # 0
                THEN Ratio(profile.endTime - profile.startTime, 1000000)
                ELSE Ratio(totalTime, 1000)]

\* ------------------------------------------------------------------------
\* The analyzer: source maps, trace events, the report
\* ------------------------------------------------------------------------

\* What resolveLocations can return for a location: the unresolved default,
\* or, for a locator recognized as minified whose map was found, what the
\* map holds for the position
ResolverAnswers(loc) ==
  {DefaultResult(loc)} \cup
  (IF isMinifiedJavaScript(loc.url)
   THEN {PositionLookup(NewTask(loc, TRUE, FALSE), resolveUrl(loc.url, RelMap)).result}
   ELSE {})

\* Lines 136-140
LocationsToResolve(topFunctions) ==
  [k \in 1..Len(topFunctions) |->
     Location(topFunctions[k].url, topFunctions[k].lineNumber,
              topFunctions[k].columnNumber, Undefined)]

\* The lists resolveLocations can return for a list of locations
RECURSIVE AnswerLists(_)
AnswerLists(locs) ==
  IF locs = <<>> THEN {<<>>}
  ELSE {<<r>> \o rest : r \in ResolverAnswers(Head(locs)), rest \in AnswerLists(Tail(locs))}

\* Lines 144-157 without the test of isResolved: every function takes the
\* fields of its location
WithResolvedUntested(topFunctions, resolvedLocations) ==
  [k \in 1..Len(topFunctions) |->
     LET resolved == resolvedLocations[k]
     IN  [topFunctions[k] EXCEPT !.originalFile = resolved.originalFile,
                                 !.originalLine = resolved.originalLine,
                                 !.originalColumn = resolved.originalColumn,
                                 !.originalName = resolved.originalName,
                                 !.isSourceMapped = "true"]]

\* Lines 144-157: the top functions with what the resolver returned
WithResolved(topFunctions, resolvedLocations) ==
  [k \in 1..Len(topFunctions) |->
     LET resolved == resolvedLocations[k]
     IN  IF resolved.isResolved
         THEN [topFunctions[k] EXCEPT !.originalFile = resolved.originalFile,
                                      !.originalLine = resolved.originalLine,
                                      !.originalColumn = resolved.originalColumn,
                                      !.originalName = resolved.originalName,
                                      !.isSourceMapped = "true"]
         ELSE [topFunctions[k] EXCEPT !.isSourceMapped = "false"]]

TraceEvent(name, dur, ts, url) == [name |-> name, dur |-> dur, ts |-> ts, url |-> url]

\* No trace file, an empty trace, and a trace with a script evaluation, a
\* paint and a function call without duration or url
NoTrace == [hasTrace |-> FALSE, traceEvents |-> <<>>]
Traces ==
  { NoTrace,
    [hasTrace |-> TRUE, traceEvents |-> <<>>],
    [hasTrace |-> TRUE,
     traceEvents |-> <<TraceEvent("EvaluateScript", 1500, 2400, U_HttpMin),
                       TraceEvent("Paint", 100, 3000, <<>>),
                       TraceEvent("FunctionCall", 0, 4600, <<>>)>>] }

RECURSIVE ScriptEvents(_)
ScriptEvents(traceEvents) ==
  IF traceEvents = <<>> THEN <<>>
  ELSE LET event == Head(traceEvents)
       IN  (IF event.name \in {"EvaluateScript", "v8.compile", "FunctionCall"}
            THEN <<[type |-> event.name,
                    duration |-> IF event.dur # 0 THEN MathRound(event.dur, 1000) ELSE 0,
                    url |-> IF event.url # <<>> THEN event.url ELSE N_Unknown,
                    startTime |-> MathRound(event.ts, 1000)]>>
            ELSE <<>>) \o ScriptEvents(Tail(traceEvents))

\* The value analyzeTraceEvents stores in scriptAnalysis
analyzeTraceEvents(traceEvents) == Slice(ScriptEvents(traceEvents), ScriptAnalysisLimit)

\* The first of "?" and "#" in s, Len(s) + 1 when there is none
QueryStart(s) ==
  LET P == {i \in 1..Len(s) : s[i] \in {"?", "#"}}
  IN  IF P = {} THEN Len(s) + 1 ELSE CHOOSE i \in P : \A j \in P : i <= j

\* new URL(url).pathname for an http url; other locators of the model are
\* not URLs, and the catch clause splits the locator itself
getFileNameFromUrl(url) ==
  IF url = <<>> THEN N_Unknown
  ELSE IF StartsWith(url, Http)
       THEN LastSegmentOrUnknown(SubSeq(url, 1, QueryStart(url) - 1))
       ELSE LastSegmentOrUnknown(url)

\* The sum of the percentages of the first two functions only
TopTwoPercentage(topFunctions) ==
  LET f == Slice(topFunctions, 2)
  IN  (IF Len(f) >= 1 THEN f[1].percentage ELSE 0) + (IF Len(f) >= 2 THEN f[2].percentage ELSE 0)

\* The sum of the percentages of the first three functions
TopThreePercentage(topFunctions) ==
  LET f == Slice(topFunctions, 3)
  IN  (IF Len(f) >= 1 THEN f[1].percentage ELSE 0) + (IF Len(f) >= 2 THEN f[2].percentage ELSE 0)
      + (IF Len(f) >= 3 THEN f[3].percentage ELSE 0)

\* 0 + parseFloat(p1) + parseFloat(p2) + parseFloat(p3) > 70 in IEEE 754
\* double precision, for up to three percentages in hundredths, each from
\* "0.00" to "100.00". A number is the function from the exponents Exps to
\* its binary digits; a double has 53 significant digits, and a result is
\* rounded to the nearest double, to the even one of two equally near.
DoubleSumExceeds70(ps) ==
  LET Exps == -62..8
      Zero == [e \in Exps |-> 0]
      \* 2^j mod 100, of period 20 from j = 2 on
      Pow2Mod100(j) ==
        IF j < 2 THEN j + 1
        ELSE <<4, 8, 16, 32, 64, 28, 56, 12, 24, 48, 96, 92, 84, 68, 36, 72, 44, 88, 76, 52>>[((j - 2) % 20) + 1]
      \* the binary digit of weight 2^e of k / 100
      Digit(k, e) ==
        IF e >= 0 THEN ((k \div 100) \div (2 ^ e)) % 2
        ELSE (2 * (((k % 100) * Pow2Mod100(-e - 1)) % 100)) \div 100
      Leading(x) == CHOOSE e \in Exps : x[e] = 1 /\ \A h \in Exps : h > e => x[h] = 0
      Add(x, y) ==
        [e \in Exps |->
           (x[e] + y[e] +
            (IF \E j \in Exps : /\ j < e /\ x[j] = 1 /\ y[j] = 1
                                 /\ \A k \in Exps : (j < k /\ k < e) => x[k] + y[k] >= 1
             THEN 1 ELSE 0)) % 2]
      \* x rounded to a double; more is TRUE when x stands for a number with
      \* further digits below those of Exps
      Round(x, more) ==
        IF x = Zero THEN x
        ELSE LET l == Leading(x)
                 kept == [e \in Exps |-> IF e >= l - 52 THEN x[e] ELSE 0]
                 rest == more \/ \E e \in Exps : e < l - 53 /\ x[e] = 1
             IN  IF x[l - 53] = 1 /\ (rest \/ x[l - 52] = 1)
                 THEN Add(kept, [e \in Exps |-> IF e = l - 52 THEN 1 ELSE 0])
                 ELSE kept
      \* parseFloat of the two-decimal string of k hundredths
      ParseFloat(k) == Round([e \in Exps |-> Digit(k, e)], k % 25 # 0)
      s1 == IF Len(ps) >= 1 THEN ParseFloat(ps[1]) ELSE Zero
      s2 == IF Len(ps) >= 2 THEN Round(Add(s1, ParseFloat(ps[2])), FALSE) ELSE s1
      s3 == IF Len(ps) >= 3 THEN Round(Add(s2, ParseFloat(ps[3])), FALSE) ELSE s2
      Seventy == [e \in Exps |-> IF e \in {6, 2, 1} THEN 1 ELSE 0]
  IN  \E e \in Exps : s3[e] = 1 /\ Seventy[e] = 0 /\ \A h \in Exps : h > e => s3[h] = Seventy[h]

\* The test of line 470. The sum of the doubles is within 2^-44 of the sum
\* of the percentages, which is a number of hundredths: the rounding of the
\* doubles decides the test only when the percentages add up to "70.00"
TopThreeExceeds70(topFunctions) ==
  IF TopThreePercentage(topFunctions) # 7000 THEN TopThreePercentage(topFunctions) > 7000
  ELSE DoubleSumExceeds70([k \in 1..Len(Slice(topFunctions, 3)) |-> topFunctions[k].percentage])

\* The pattern of analyzeExecutionPattern; percentages are in hundredths
analyzeExecutionPattern(topFunctions) ==
  IF topFunctions = <<>> THEN "unknown"
  ELSE IF topFunctions[1].percentage > 5000 THEN "single-bottleneck"
  ELSE IF TopThreeExceeds70(topFunctions) THEN "few-hot-functions"
  ELSE "distributed"

\* generateFlamegraphData: the analysis, null when it could not be written
generateFlamegraphData(results, written) ==
  [isNull |-> ~written,
   executionPattern |-> IF written THEN analyzeExecutionPattern(results.topFunctions)
                        ELSE Undefined]

HighImpactFunction(func) ==
  [function |-> func.functionName,
   file |-> getFileNameFromUrl(func.url),
   execution_time_ms |-> func.selfTime,
   cpu_percentage |-> func.percentage,
   call_count |-> func.hitCount,
   location |-> func.url \o <<":">> \o NumberToString(func.lineNumber),
   originalFile |-> func.originalFile,
   originalLine |-> func.originalLine,
   originalColumn |-> func.originalColumn,
   originalName |-> func.originalName,
   isSourceMapped |-> func.isSourceMapped]

generateLLMReport(results, flamegraphData) ==
  [executive_summary |->
     [total_execution_time_ms |-> results.rawData.totalTime,
      total_samples |-> results.rawData.totalSamples,
      sample_interval_ms |-> results.rawData.sampleInterval],
   high_impact_functions |->
     [k \in 1..Len(Slice(results.topFunctions, HighImpactLimit)) |->
        HighImpactFunction(results.topFunctions[k])],
   script_performance |-> [script_execution_analysis |-> results.scriptAnalysis],
   flamegraph_analysis |-> flamegraphData]

\* ------------------------------------------------------------------------
\* The analyzer: analyzeCPUProfile
\* ------------------------------------------------------------------------

\* The results of a new analyzer
InitialResults ==
  [topFunctions |-> <<>>, scriptAnalysis |-> <<>>,
   rawData |-> [totalSamples |-> 0, totalTime |-> Ratio(0, 1),
                sampleInterval |-> Ratio(0, 1), duration |-> Ratio(0, 1)]]

\* The profile and trace of a call of the model made after n calls. The
\* first call takes every profile without a trace and some profiles with
\* each trace, a later call takes the latter
LaterInputs ==
  {[profile |-> p, trace |-> t] :
     p \in TimedProfiles \cup MalformedProfiles \cup {Unreadable}, t \in Traces}

Inputs(n) ==
  IF n = 0 THEN {[profile |-> p, trace |-> NoTrace] : p \in Profiles} \cup LaterInputs
  ELSE LaterInputs

NoReport == generateLLMReport(InitialResults, generateFlamegraphData(InitialResults, FALSE))

\* A call of analyzeCPUProfile: where it is, its arguments, the locals of
\* analyzeCPUProfileData and of resolveSourceMapsForTopFunctions, the error
\* it threw and the report it returned
NewAnalysis(profile, trace) ==
  [pc |-> "idle", profile |-> profile, trace |-> trace, nodes |-> <<>>, expanded |-> <<>>,
   collapsedSamples |-> <<>>, sampleTimes |-> <<>>, totalTime |-> 0,
   resolvedLocations |-> <<>>, error |-> "none", hasReport |-> FALSE, report |-> NoReport]

\* Line 55
InvalidFormat(profile) == ~profile.hasNodes \/ ~profile.hasSamples

\* analyzeCPUProfileData up to the await of resolveLocations: the error it
\* throws, or its locals and the rawData and topFunctions it stores.
\* timeDeltas[0] of line 171 throws a TypeError when timeDeltas is undefined.
analyzeCPUProfileData(profile) ==
  IF InvalidFormat(profile)
  THEN [error |-> "Invalid CPU profile format", nodes |-> <<>>, expanded |-> <<>>,
        collapsedSamples |-> <<>>,
        sampleTimes |-> <<>>, totalTime |-> 0, rawData |-> InitialResults.rawData,
        topFunctions |-> <<>>]
  ELSE IF ~profile.hasTimeDeltas
  THEN [error |-> "TypeError", nodes |-> <<>>, expanded |-> <<>>,
        collapsedSamples |-> <<>>,
        sampleTimes |-> <<>>, totalTime |-> 0, rawData |-> InitialResults.rawData,
        topFunctions |-> <<>>]
  ELSE LET P == processSamplesSpeedscope(profile.samples, profile.timeDeltas)
           M == Accumulate(P.collapsedSamples, P.sampleTimes, 1,
                           [selfTimes |-> EmptyMap, hitCounts |-> EmptyMap])
           totalTime == TotalTime(P.sampleTimes)
           W == calculateTotalTimesSpeedscope(AssignTimes(profile.nodes, M))
           nodes == W.nodes
       IN  [error |-> "none", nodes |-> nodes, expanded |-> W.expanded,
            collapsedSamples |-> P.collapsedSamples,
            sampleTimes |-> P.sampleTimes, totalTime |-> totalTime,
            rawData |-> RawData(profile, totalTime),
            topFunctions |-> TopFunctions(nodes, totalTime)]

\* analyzeCPUProfileData of each profile of the model
DataOf == [p \in Profiles |-> analyzeCPUProfileData(p)]

\* The catch clause of analyzeCPUProfile returning instead of throwing
CatchAndReturn(call, error) == [call EXCEPT !.pc = "returned", !.error = error]

\* The catch clause of analyzeCPUProfile: log and throw the error again
CatchAndThrow(call, error) == [call EXCEPT !.pc = "raised", !.error = error]

AnalyzerInit ==
  /\ analysisResults = InitialResults
  /\ analysis = NewAnalysis(Unreadable, NoTrace)
  /\ saved = 0
  /\ analyses = 0

\* analyzeCPUProfile from its call to the await of resolveLocations: the
\* files are read and parsed and analyzeCPUProfileData runs
AnalyzeCPUProfile ==
  /\ analysis.pc \in {"idle", "returned", "raised"}
  /\ analyses < MaxAnalyses
  /\ analyses' = analyses + 1
  /\ \E input \in Inputs(analyses) :
     LET profile == input.profile
         call == NewAnalysis(profile, input.trace)
         d    == DataOf[profile]
     IN  IF ~profile.readable
         THEN /\ analysis' = CatchAndThrow(call, "read")
              /\ UNCHANGED analysisResults
         ELSE IF d.error # "none"
         THEN /\ analysis' = CatchAndThrow(call, d.error)
              /\ UNCHANGED analysisResults
         ELSE /\ analysis' = [call EXCEPT !.pc = "resolving", !.nodes = d.nodes,
                                          !.expanded = d.expanded,
                                          !.collapsedSamples = d.collapsedSamples,
                                          !.sampleTimes = d.sampleTimes,
                                          !.totalTime = d.totalTime]
              /\ analysisResults' = [analysisResults EXCEPT !.rawData = d.rawData,
                                                            !.topFunctions = d.topFunctions]
  /\ UNCHANGED saved
  /\ UNCHANGED resolverVars

\* resolveLocations has returned: the top functions take the resolved
\* locations, the trace events are analyzed, the flamegraph data and the
\* report are written when the directory of the profile can be written
SourceMapsResolved(writable) ==
  /\ analysis.pc = "resolving"
  /\ \E resolvedLocations \in AnswerLists(LocationsToResolve(analysisResults.topFunctions)) :
     LET r1 == [analysisResults EXCEPT
                  !.topFunctions = WithResolved(@, resolvedLocations)]
         r2 == IF analysis.trace.hasTrace
               THEN [r1 EXCEPT !.scriptAnalysis = analyzeTraceEvents(analysis.trace.traceEvents)]
               ELSE r1
         report == generateLLMReport(r2, generateFlamegraphData(r2, writable))
         call == [analysis EXCEPT !.resolvedLocations = resolvedLocations]
     IN  /\ analysisResults' = r2
         /\ IF writable
            THEN /\ saved' = saved + 1
                 /\ analysis' = [call EXCEPT !.pc = "returned", !.hasReport = TRUE,
                                             !.report = report]
            ELSE /\ saved' = saved
                 /\ analysis' = CatchAndThrow(call, "write")
  /\ UNCHANGED analyses
  /\ UNCHANGED resolverVars

AnalyzerNext ==
  \/ AnalyzeCPUProfile
  \/ \E writable \in BOOLEAN : SourceMapsResolved(writable)

vars == <<resolverVars, analyzerVars>>

Init == ResolverInit /\ AnalyzerInit

Next == ResolverNext

\* Calls and batches that overlap in every way the event loop allows
Spec == Init /\ [][Next]_vars

\* Calls that do not overlap
SequentialSpec == Init /\ [][SequentialNext]_vars

\* One analyzer, its calls made one after the other
AnalyzerSpec == Init /\ [][AnalyzerNext]_vars

\* The event loop runs every continuation that is ready; nothing obliges a
\* read to answer
LiveSpec ==
  /\ Spec
  /\ WF_vars(\E i \in 1..MaxTasks, existing \in SUBSET LocalMapPaths : Continue(i, existing))
  /\ WF_vars(\E i \in 1..MaxTasks : EntrySettles(i))
  /\ WF_vars(ResolveLocationsReturns)

\* ------------------------------------------------------------------------
\* Claims about the resolver
\* ------------------------------------------------------------------------

Done(i) == i \in 1..Len(tasks) /\ tasks[i].pc = "done"

\* The tasks suspended on a read of path
Reading(path) ==
  {i \in 1..Len(tasks) : tasks[i].pc \in {"fetchJs", "fetchMap"} /\ tasks[i].path = path}

\* C1: at most one read of a path is in flight at any time, so calls that
\* name the same locator while none has completed share one read.
C1_SingleFlight ==
  \A i \in 1..Len(tasks) : Cardinality(Reading(tasks[i].path)) <= 1

\* C2: when calls do not overlap, a minified locator of which a call has
\* ended has had exactly one read issued for its resource, however many
\* calls named it and however they ended.
C2_OneReadPerLocator ==
  \A i \in 1..Len(tasks) :
    (Done(i) /\ isMinifiedJavaScript(tasks[i].loc.url)) =>
      /\ NormalizePath(tasks[i].loc.url) \in DOMAIN fetchCount
      /\ fetchCount[NormalizePath(tasks[i].loc.url)] = 1

\* Two calls for one minified locator have ended, the first of them
\* unresolved after a failed lookup
C2_Witness ==
  \E i, j \in 1..Len(tasks) :
    /\ i < j /\ Done(i) /\ Done(j)
    /\ tasks[i].loc.url = tasks[j].loc.url
    /\ isMinifiedJavaScript(tasks[i].loc.url)
    /\ tasks[i].lookupFailed

\* C3: a call for a locator made after a call for it ended with a failed
\* lookup returns isResolved = FALSE and issues no read.
C3_NoRetryAfterFailure ==
  \A i \in 1..Len(tasks) :
    (Done(i) /\ tasks[i].afterFailure) =>
      /\ ~tasks[i].result.isResolved
      /\ tasks[i].nfetch = 0

\* Locators of each kind that is not recognized as minified JavaScript:
\* empty, not ending in .js, with /src/, /source/ or webpack://, and ending
\* in .js but matching no bundle pattern ("a.js", "a.0123abc.js" with a
\* hash of seven digits, "a.min.js?v")
NotMinifiedLocators ==
  { <<>>,
    <<"a", ".", "m", "i", "n", ".", "c", "s", "s">>,
    <<"a", ".", "m", "i", "n", ".", "j", "s", "?", "v">>,
    U_Src,
    <<"/", "s", "o", "u", "r", "c", "e", "/", "a", ".", "m", "i", "n", ".", "j", "s">>,
    <<"w", "e", "b", "p", "a", "c", "k", ":", "/", "/", "a", ".", "m", "i", "n", ".", "j", "s">>,
    <<"a", ".", "j", "s">>,
    <<"a", ".", "0", "1", "2", "3", "a", "b", "c", ".", "j", "s">> }

\* C4: a resolveLocation call on a locator that is not recognized as
\* minified has ended at once with isResolved = FALSE, has issued no read
\* and has written no cache; and in every state the resolver reaches, such
\* a call on any of NotMinifiedLocators would end so and leave both caches
\* and the reads issued as they are.
C4_NotMinifiedUntouched ==
  /\ \A i \in 1..Len(tasks) :
       (tasks[i].loc.url \in NotMinifiedLocators /\ ~tasks[i].memo) =>
         /\ tasks[i].pc = "done"
         /\ tasks[i].outcome = "value"
         /\ ~tasks[i].result.isResolved
         /\ tasks[i].nfetch = 0
         /\ ~tasks[i].wrote
  /\ \A u \in NotMinifiedLocators :
       LET e == StartResolveLocation(NewTask(Location(u, 1, 1, Undefined), FALSE, FALSE),
                                     sourceMapCache, fileContentsCache, fetchCount,
                                     LocalJsPaths)
       IN  /\ e.task.pc = "done"
           /\ e.task.result = DefaultResult(Location(u, 1, 1, Undefined))
           /\ e.smc = sourceMapCache
           /\ e.fcc = fileContentsCache
           /\ e.fc = fetchCount

\* A call on "/src/a.min.js" has ended while both caches hold entries
C4_Witness ==
  /\ \E i \in 1..Len(tasks) : tasks[i].loc.url = U_Src /\ Done(i)
  /\ DOMAIN sourceMapCache # {}
  /\ DOMAIN fileContentsCache # {}

\* C5: the list resolveLocations returns has the length of its input, and
\* its entry k is the location of input k.
C5_ResultsInInputOrder ==
  batch.state = "returned" =>
    /\ Len(batch.results) = Len(batch.locs)
    /\ \A k \in 1..Len(batch.locs) : batch.results[k].minifiedUrl = batch.locs[k].url

\* A batch of two locators has returned whose second entry settled first
C5_Witness ==
  /\ batch.state = "returned"
  /\ Len(batch.locs) = 2
  /\ batch.locs[1].url # batch.locs[2].url
  /\ batch.outOfOrder

\* C6: a resolveLocation call that has ended has a value, never an error,
\* and the value is unresolved when a read or a parse step of the call
\* failed; a resolveLocations call that has returned has a location for
\* every entry.
C6_NeverRaises ==
  /\ \A i \in 1..Len(tasks) :
       Done(i) =>
         /\ tasks[i].outcome = "value"
         /\ tasks[i].stepFailed => ~tasks[i].result.isResolved
  /\ batch.state = "returned" => Len(batch.results) = Len(batch.locs)

\* A call in which a step failed has ended
C6_Witness ==
  \E i \in 1..Len(tasks) : Done(i) /\ tasks[i].stepFailed /\ tasks[i].nfetch > 0

\* C7: a resolveLocations call that is in progress eventually returns.
C7_BatchReturns ==
  (batch.state = "pending") ~> (batch.state = "returned")

\* ------------------------------------------------------------------------
\* Claims about the analyzer
\* ------------------------------------------------------------------------

\* analyzeCPUProfileData of the call has run to its end
Analyzed ==
  \/ analysis.pc \in {"resolving", "returned"}
  \/ (analysis.pc = "raised" /\ analysis.error = "write")

\* C8: a call of analyzeCPUProfile on a profile that lacks nodes or samples
\* ends raising 'Invalid CPU profile format', returns no report, saves none
\* and leaves topFunctions, rawData and scriptAnalysis as they were.
C8_MalformedProfileRaises ==
  [][(/\ analyses' = analyses + 1
      /\ analysis'.profile.readable
      /\ InvalidFormat(analysis'.profile))
     => (/\ analysis'.pc = "raised"
         /\ analysis'.error = "Invalid CPU profile format"
         /\ ~analysis'.hasReport
         /\ saved' = saved
         /\ analysisResults' = analysisResults)]_vars

\* A call with trace events on a profile without samples has raised on an
\* analyzer that holds the results and the saved report of an earlier call
C8_Witness ==
  /\ analysis.pc = "raised"
  /\ analysis.profile.readable
  /\ InvalidFormat(analysis.profile)
  /\ analysis.profile.hasNodes
  /\ analysis.trace.hasTrace
  /\ analysisResults.topFunctions # <<>>
  /\ saved > 0

\* C9: a call on a profile with nodes and samples and without timeDeltas
\* does not fail in analyzeCPUProfileData, and rawData.sampleInterval is
\* 1000 / 1000 when the profile has no sampleInterval.
C9_ProfileWithoutTimeDeltasAccepted ==
  (/\ analysis.pc # "idle"
   /\ analysis.profile.readable
   /\ ~InvalidFormat(analysis.profile)
   /\ ~analysis.profile.hasTimeDeltas)
  => (/\ analysis.error \notin {"Invalid CPU profile format", "TypeError"}
      /\ analysis.profile.sampleInterval = 0 =>
           analysisResults.rawData.sampleInterval = Ratio(1000, 1000))

\* The sum of selfTime over the nodes; a node without one counts 0
RECURSIVE SumSelfTime(_)
SumSelfTime(nodes) ==
  IF nodes = <<>> THEN 0 ELSE OrZero(Head(nodes).selfTime) + SumSelfTime(Tail(nodes))

\* Every sample names a node of the profile
SamplesHaveNodes(profile) ==
  \A i \in 1..Len(profile.samples) : NodeIndex(profile.nodes, profile.samples[i]) # 0

\* C10 as stated: after analyzeCPUProfileData the self times of the nodes
\* add up to the last sample time minus the first, for every profile.
C10_SelfTimesSumToTotal ==
  Analyzed => SumSelfTime(analysis.nodes) = analysis.totalTime

\* C10 as amended: after analyzeCPUProfileData on a profile whose samples
\* all name nodes of the profile, the self times of the nodes add up to the
\* last sample time minus the first.
C10_SelfTimesSumToTotalWhenSamplesHaveNodes ==
  (Analyzed /\ SamplesHaveNodes(analysis.profile)) =>
    SumSelfTime(analysis.nodes) = analysis.totalTime

\* A profile with a negative time delta, three collapsed samples or more,
\* all of nodes of the profile, and time elapsed has been analyzed
C10_Witness ==
  /\ Analyzed
  /\ SamplesHaveNodes(analysis.profile)
  /\ \E i \in 1..Len(analysis.profile.timeDeltas) : analysis.profile.timeDeltas[i] < 0
  /\ Len(analysis.collapsedSamples) >= 3
  /\ analysis.totalTime > 0


\* The places k of a list whose entries k and k + 1 are equal
AdjacentEqual(seq) == {k \in 1..(Len(seq) - 1) : seq[k] = seq[k + 1]}

\* C11 as stated: the collapsed sample list processSamplesSpeedscope returns
\* never holds two adjacent equal node ids, the entry of the final flush
\* included.
C11_NoAdjacentEqualIds ==
  Analyzed => AdjacentEqual(analysis.collapsedSamples) = {}

\* C11 as amended: two adjacent equal node ids occur in the collapsed list
\* only as its last two entries, the second being the entry of the final
\* flush, and they occur there exactly when the last two samples are equal.
C11_AdjacentEqualIdsOnlyAtFlush ==
  Analyzed =>
    LET cs == analysis.collapsedSamples
        s  == analysis.profile.samples
    IN  /\ AdjacentEqual(cs) \subseteq {Len(cs) - 1}
        /\ (AdjacentEqual(cs) # {}) <=> (Len(s) >= 2 /\ s[Len(s)] = s[Len(s) - 1])

\* A stream of three samples whose last two are equal and differ from the
\* first has been collapsed
C11_Witness ==
  /\ Analyzed
  /\ Len(analysis.profile.samples) = 3
  /\ analysis.profile.samples[1] # analysis.profile.samples[2]
  /\ analysis.profile.samples[2] = analysis.profile.samples[3]
  /\ Len(analysis.collapsedSamples) = 3

\* The ids of the nodes
NodeIds(nodes) == {nodes[k].id : k \in 1..Len(nodes)}

\* The places <<k, j>> at which id is listed as a child
ParentPlaces(nodes, id) ==
  {p \in (1..Len(nodes)) \X (1..Len(nodes)) :
     p[2] <= Len(nodes[p[1]].children) /\ nodes[p[1]].children[p[2]] = id}

\* The ids reached from id by at most n steps to a child
RECURSIVE Descendants(_, _, _)
Descendants(nodes, id, n) ==
  IF n = 0 \/ NodeIndex(nodes, id) = 0 THEN {}
  ELSE LET c == nodes[NodeIndex(nodes, id)].children
       IN  {c[j] : j \in 1..Len(c)} \cup
           UNION {Descendants(nodes, c[j], n - 1) : j \in 1..Len(c)}

\* The nodes form a proper tree or forest: ids are unique, every child id
\* names a node, a node has at most one parent and is not its own descendant
ProperTree(nodes) ==
  /\ \A k, l \in 1..Len(nodes) : nodes[k].id = nodes[l].id => k = l
  /\ \A k \in 1..Len(nodes) :
       /\ Len(nodes[k].children) <= Len(nodes)
       /\ \A j \in 1..Len(nodes[k].children) : nodes[k].children[j] \in NodeIds(nodes)
       /\ Cardinality(ParentPlaces(nodes, nodes[k].id)) <= 1
       /\ nodes[k].id \notin Descendants(nodes, nodes[k].id, Len(nodes))

\* The places of the nodes that are no node's child
Roots(nodes) == {k \in 1..Len(nodes) : ParentPlaces(nodes, nodes[k].id) = {}}

\* The sum of totalTime over the children of node k, a value that is not a
\* number counting 0
RECURSIVE SumChildTotals(_, _, _)
SumChildTotals(nodes, k, j) ==
  IF j > Len(nodes[k].children) THEN 0
  ELSE OrZero(nodes[NodeIndex(nodes, nodes[k].children[j])].totalTime)
       + SumChildTotals(nodes, k, j + 1)

\* C12: after analyzeCPUProfileData on a proper tree the total time of every
\* node is at least its self time, in the nodes and in the milliseconds of
\* topFunctions, and the total time of a single root is the sum of the self
\* times of all nodes (a time that is not a number is read as 0, as the
\* code reads it with || 0).
C12_TotalTimeCoversSelfTime ==
  (Analyzed /\ ProperTree(analysis.nodes)) =>
    /\ \A k \in 1..Len(analysis.nodes) :
         OrZero(analysis.nodes[k].totalTime) >= OrZero(analysis.nodes[k].selfTime)
    /\ \A k \in 1..Len(analysisResults.topFunctions) :
         analysisResults.topFunctions[k].totalTime >= analysisResults.topFunctions[k].selfTime
    /\ \A r \in Roots(analysis.nodes) :
         Roots(analysis.nodes) = {r} =>
           OrZero(analysis.nodes[r].totalTime) = SumSelfTime(analysis.nodes)

\* C13: after analyzeCPUProfileData on a proper tree, in whatever order its
\* nodes are listed, the total time of every node is its self time plus the
\* total times of its children.
C13_TotalTimeIsSelfPlusChildren ==
  (Analyzed /\ ProperTree(analysis.nodes)) =>
    \A k \in 1..Len(analysis.nodes) :
      OrZero(analysis.nodes[k].totalTime) =
        OrZero(analysis.nodes[k].selfTime) + SumChildTotals(analysis.nodes, k, 1)

\* C14: the percentage of every topFunctions entry is from "0.00" to
\* "100.00", and is "0.00" when the total elapsed time is zero.
C14_PercentageInRange ==
  Analyzed =>
    \A k \in 1..Len(analysisResults.topFunctions) :
      /\ analysisResults.topFunctions[k].percentage >= 0
      /\ analysisResults.topFunctions[k].percentage <= 10000
      /\ analysis.totalTime = 0 => analysisResults.topFunctions[k].percentage = 0

\* A profile whose total elapsed time is zero has a top function
C14_Witness ==
  /\ Analyzed
  /\ analysis.totalTime = 0
  /\ analysisResults.topFunctions # <<>>
  /\ Len(analysis.profile.samples) >= 2

\* The exclusion rules: the url is the V8 sentinel file, the url contains
\* the marker of the Lighthouse script, the name is the root or idle marker
MatchesExclusionRule(url, functionName) ==
  \/ url = <<"n", "a", "t", "i", "v", "e", " ", "d", "u", "m", "m", "y", ".", "j", "s">>
  \/ \E i \in 1..Len(url) :
       i + 18 <= Len(url) /\ SubSeq(url, i, i + 18) = <<"_", "l", "i", "g", "h", "t", "h", "o", "u", "s", "e", "-", "e", "v", "a", "l", ".", "j", "s">>
  \/ functionName \in {<<"(", "r", "o", "o", "t", ")">>, <<"(", "i", "d", "l", "e", ")">>}

\* The nodes of the map of nodes that were hit
HitNodes(nodes) ==
  {k \in 1..Len(nodes) : /\ NodeIndex(nodes, nodes[k].id) = k
                         /\ nodes[k].hitCount.kind = "number"
                         /\ nodes[k].hitCount.n # 0}

\* C15: no entry of topFunctions, and so none of high_impact_functions,
\* comes from a node that an exclusion rule names, and a node with hits that
\* no rule names has its entry (the nodes with hits being no more than the
\* 20 that topFunctions keeps).
C15_ExclusionRules ==
  Analyzed =>
    /\ \A k \in 1..Len(analysisResults.topFunctions) :
         ~MatchesExclusionRule(analysisResults.topFunctions[k].url,
                               analysisResults.topFunctions[k].functionName)
    /\ analysis.hasReport =>
         \A k \in 1..Len(analysis.report.high_impact_functions) :
           \E j \in 1..Len(analysisResults.topFunctions) :
             /\ analysisResults.topFunctions[j].functionName =
                  analysis.report.high_impact_functions[k].function
             /\ analysisResults.topFunctions[j].url \o <<":">> \o
                  NumberToString(analysisResults.topFunctions[j].lineNumber) =
                  analysis.report.high_impact_functions[k].location
    /\ Cardinality(HitNodes(analysis.nodes)) <= TopFunctionsLimit =>
         \A k \in HitNodes(analysis.nodes) :
           ~MatchesExclusionRule(analysis.nodes[k].callFrame.url,
                                 analysis.nodes[k].callFrame.functionName) =>
             \E j \in 1..Len(analysisResults.topFunctions) :
               /\ analysisResults.topFunctions[j].hitCount = analysis.nodes[k].hitCount.n
               /\ analysisResults.topFunctions[j].selfTime =
                    MathRound(OrZero(analysis.nodes[k].selfTime), 1000)
               /\ analysisResults.topFunctions[j].lineNumber =
                    analysis.nodes[k].callFrame.lineNumber + 1
               /\ analysisResults.topFunctions[j].url =
                    (IF analysis.nodes[k].callFrame.url = <<>> THEN N_UnknownUrl
                     ELSE analysis.nodes[k].callFrame.url)

\* A report was returned for a profile in which a node of a Lighthouse
\* script and a node that no rule names were sampled
C15_Witness ==
  /\ analysis.pc = "returned"
  /\ analysis.hasReport
  /\ \E k, l \in HitNodes(analysis.nodes) :
       /\ analysis.nodes[k].callFrame.url = U_Lighthouse
       /\ ~MatchesExclusionRule(analysis.nodes[l].callFrame.url,
                                analysis.nodes[l].callFrame.functionName)
  /\ analysisResults.topFunctions # <<>>

\* The places of the nodes that are eligible for topFunctions: hit, and
\* named by no exclusion rule
Eligible(nodes) ==
  {k \in HitNodes(nodes) :
     ~MatchesExclusionRule(nodes[k].callFrame.url, nodes[k].callFrame.functionName)}

\* The topFunctions entry f is the entry of the node
EntryOf(f, node) ==
  /\ f.lineNumber = node.callFrame.lineNumber + 1
  /\ f.columnNumber = node.callFrame.columnNumber + 1
  /\ f.url = (IF node.callFrame.url = <<>> THEN N_UnknownUrl ELSE node.callFrame.url)
  /\ f.hitCount = node.hitCount.n
  /\ f.selfTime = MathRound(OrZero(node.selfTime), 1000)

\* C16: topFunctions holds at most 20 entries in non-increasing order of
\* selfTime, an eligible node without an entry has a selfTime no greater
\* than that of every entry, and high_impact_functions of the report is the
\* first at most 10 entries of topFunctions, in their order.
C16_TopFunctionsRanked ==
  Analyzed =>
    LET tf == analysisResults.topFunctions
        hi == analysis.report.high_impact_functions
    IN  /\ Len(tf) <= 20
        /\ Len(tf) = (IF Cardinality(Eligible(analysis.nodes)) < 20
                      THEN Cardinality(Eligible(analysis.nodes)) ELSE 20)
        /\ \A k \in 1..(Len(tf) - 1) : tf[k].selfTime >= tf[k + 1].selfTime
        /\ \A n \in Eligible(analysis.nodes) :
             \/ \E k \in 1..Len(tf) : EntryOf(tf[k], analysis.nodes[n])
             \/ \A k \in 1..Len(tf) :
                  MathRound(OrZero(analysis.nodes[n].selfTime), 1000) <= tf[k].selfTime
        /\ analysis.hasReport =>
             /\ Len(hi) = (IF Len(tf) < 10 THEN Len(tf) ELSE 10)
             /\ \A k \in 1..Len(hi) :
                  /\ hi[k].function = tf[k].functionName
                  /\ hi[k].execution_time_ms = tf[k].selfTime
                  /\ hi[k].cpu_percentage = tf[k].percentage
                  /\ hi[k].call_count = tf[k].hitCount
                  /\ hi[k].location = tf[k].url \o <<":">> \o NumberToString(tf[k].lineNumber)

\* A report was returned for a profile with more than 20 eligible
\* functions: 20 were kept, 10 are in the report
C16_Witness ==
  /\ analysis.pc = "returned"
  /\ analysis.hasReport
  /\ Cardinality(Eligible(analysis.nodes)) > 20
  /\ Len(analysisResults.topFunctions) = 20
  /\ Len(analysis.report.high_impact_functions) = 10

\* The percentages of the first three entries of a list together, in
\* hundredths
FirstThreeTogether(tf) ==
  LET P(k) == IF k <= Len(tf) THEN tf[k].percentage ELSE 0
  IN  P(1) + P(2) + P(3)

\* The pattern the report of the call gives
ReportedPattern == analysis.report.flamegraph_analysis.executionPattern

\* C17 as stated: for every list of top functions the pattern is
\* 'single-bottleneck' when the percentage of the first is above 50, else
\* 'few-hot-functions' when the first three together exceed 70, and
\* 'distributed' in every other case.
C17_ExecutionPattern ==
  analysis.hasReport =>
    LET tf == analysisResults.topFunctions
    IN  ReportedPattern =
          (IF tf # <<>> /\ tf[1].percentage > 5000 THEN "single-bottleneck"
           ELSE IF FirstThreeTogether(tf) > 7000 THEN "few-hot-functions"
           ELSE "distributed")

\* C17 as amended: for an empty list the pattern is 'unknown'; for any other
\* it is 'single-bottleneck' when the percentage of the first is above 50,
\* else 'few-hot-functions' when the first three together exceed 70 and
\* 'distributed' when they are together below 70, and one of these two when
\* they add up to exactly 70.00.
C17_ExecutionPatternOfNonEmptyList ==
  analysis.hasReport =>
    LET tf == analysisResults.topFunctions
    IN  IF tf = <<>> THEN ReportedPattern = "unknown"
        ELSE IF tf[1].percentage > 5000 THEN ReportedPattern = "single-bottleneck"
        ELSE IF FirstThreeTogether(tf) > 7000 THEN ReportedPattern = "few-hot-functions"
        ELSE IF FirstThreeTogether(tf) < 7000 THEN ReportedPattern = "distributed"
        ELSE ReportedPattern \in {"few-hot-functions", "distributed"}

\* A report for three functions of at most 50 percent each that take 70.00
\* percent together gives 'few-hot-functions'
C17_Witness ==
  /\ analysis.hasReport
  /\ Len(analysisResults.topFunctions) = 3
  /\ analysisResults.topFunctions[1].percentage <= 5000
  /\ FirstThreeTogether(analysisResults.topFunctions) = 7000
  /\ ReportedPattern = "few-hot-functions"

\* C18: in a report, an entry of high_impact_functions has isSourceMapped
\* true exactly when the resolver returned isResolved = true for the
\* location of its function, it then has the original file, line, column
\* and name the resolver returned, and otherwise it has none of them.
C18_SourceMappedIffResolved ==
  analysis.hasReport =>
    LET hi == analysis.report.high_impact_functions
    IN  /\ Len(hi) <= Len(analysis.resolvedLocations)
        /\ \A k \in 1..Len(hi) :
             LET resolved == analysis.resolvedLocations[k]
             IN  /\ resolved.minifiedUrl = analysisResults.topFunctions[k].url
                 /\ (hi[k].isSourceMapped = "true") <=> resolved.isResolved
                 /\ resolved.isResolved =>
                      /\ hi[k].originalFile = resolved.originalFile
                      /\ hi[k].originalLine = resolved.originalLine
                      /\ hi[k].originalColumn = resolved.originalColumn
                      /\ hi[k].originalName = resolved.originalName
                 /\ ~resolved.isResolved =>
                      /\ hi[k].isSourceMapped = "false"
                      /\ hi[k].originalFile = <<>>
                      /\ hi[k].originalLine = 0
                      /\ hi[k].originalColumn = 0
                      /\ hi[k].originalName = Undefined

\* A report with a function whose location was resolved and a function
\* whose location was not
C18_Witness ==
  /\ analysis.hasReport
  /\ \E k, l \in 1..Len(analysis.report.high_impact_functions) :
       /\ analysis.resolvedLocations[k].isResolved
       /\ analysis.report.high_impact_functions[k].isSourceMapped = "true"
       /\ ~analysis.resolvedLocations[l].isResolved
       /\ analysis.resolvedLocations[l].originalFile # <<>>

\* C19: a call on a profile that has nodes and samples does not fail in
\* analyzeCPUProfileData, whatever the resolver returns for the locations:
\* once the locations are back the top functions are each marked as
\* source-mapped or not, and the report that is returned lists them.
C19_SourceMapFailureNeverAborts ==
  (analysis.pc # "idle" /\ analysis.profile.readable /\ ~InvalidFormat(analysis.profile)) =>
    /\ Analyzed
    /\ analysis.pc \in {"returned", "raised"} =>
         \A k \in 1..Len(analysisResults.topFunctions) :
           analysisResults.topFunctions[k].isSourceMapped =
             (IF analysis.resolvedLocations[k].isResolved THEN "true" ELSE "false")
    /\ analysis.pc = "returned" =>
         /\ analysis.hasReport
         /\ analysisResults.topFunctions # <<>> => analysis.report.high_impact_functions # <<>>

\* The call is on the profile of the example: node 1 with the child 2,
\* samples [1, 1, 2], time deltas [0, 100, 200]
ExampleAnalyzed ==
  /\ Analyzed
  /\ Len(analysis.profile.nodes) = 2
  /\ analysis.profile.nodes[1].id = 1 /\ analysis.profile.nodes[1].children = <<2>>
  /\ analysis.profile.nodes[2].id = 2 /\ analysis.profile.nodes[2].children = <<>>
  /\ analysis.profile.samples = <<1, 1, 2>>
  /\ analysis.profile.timeDeltas = <<0, 100, 200>>

\* C20 as stated: the samples of the example collapse to the node ids
\* [1, 2] at the sample times [0, 300].
C20_ExampleCollapsed ==
  ExampleAnalyzed =>
    /\ analysis.collapsedSamples = <<1, 2>>
    /\ analysis.sampleTimes = <<0, 300>>

\* C20 as amended: the samples of the example collapse to the node ids
\* [1, 2, 1] at the sample times [0, 300, 300], the last entry being the
\* flush of the final sample; node 1 has the self time 300 and two hits,
\* node 2 the self time 0 and one hit.
C20_ExampleCollapsedWithFlush ==
  ExampleAnalyzed =>
    /\ analysis.collapsedSamples = <<1, 2, 1>>
    /\ analysis.sampleTimes = <<0, 300, 300>>
    /\ analysis.nodes[1].selfTime = Number(300) /\ analysis.nodes[1].hitCount = Number(2)
    /\ analysis.nodes[2].selfTime = Number(0) /\ analysis.nodes[2].hitCount = Number(1)

\* The profile of the example has been analyzed and its report returned
C20_Witness ==
  /\ ExampleAnalyzed
  /\ analysis.pc = "returned"
  /\ analysis.totalTime = 300

\* The map reference the invocation has discovered is an inline
\* data:application/json URI: retrieveSourceMapURL is about to hand it to
\* retrieveSourceMap, or its payload is being made a consumer (the locator of
\* such a map is the locator of the minified resource, lines 120 and 124)
InlineReference(t) ==
  \/ /\ t.pc = "haveJs"
     /\ SourceMappingURL(t.content, t.header).kind = "data"
  \/ /\ t.pc = "consumer"
     /\ t.mapUrl = t.loc.url

\* C21: once the map reference of a minified resource is an inline
\* data:application/json URI, no step of that resolution issues a read: the
\* reads of the run stay as they are, the resolution goes on to the consumer
\* or to its result, and the one read it has issued (none when the resource
\* came from the byte cache) is that of the minified resource.
C21_InlineMapNotFetched ==
  [][\A i \in 1..Len(tasks) :
       (InlineReference(tasks[i]) /\ tasks'[i] # tasks[i]) =>
         /\ fetchCount' = fetchCount
         /\ tasks'[i].nfetch = tasks[i].nfetch
         /\ tasks[i].nfetch <= 1
         /\ tasks'[i].pc \in {"consumer", "done"}]_vars

\* A resolution through an inline map has resolved its location after the
\* single read of the minified resource
C21_Witness ==
  \E i \in 1..Len(tasks) :
    /\ tasks[i].pc = "done"
    /\ tasks[i].result.isResolved
    /\ tasks[i].result.sourceMapUrl = tasks[i].loc.url
    /\ tasks[i].nfetch = 1
    /\ fetchCount = (NormalizePath(tasks[i].loc.url) :> 1)

\* The report of the call on a new analyzer given the same profile, the same
\* trace and the same answer of the resolver
ReportOfNewAnalyzer ==
  LET d  == DataOf[analysis.profile]
      r0 == [InitialResults EXCEPT !.rawData = d.rawData, !.topFunctions = d.topFunctions]
      r1 == [r0 EXCEPT !.topFunctions = WithResolved(@, analysis.resolvedLocations)]
      r2 == IF analysis.trace.hasTrace
            THEN [r1 EXCEPT !.scriptAnalysis = analyzeTraceEvents(analysis.trace.traceEvents)]
            ELSE r1
  IN  generateLLMReport(r2, generateFlamegraphData(r2, TRUE))

\* C22: the report of a call depends only on the profile and trace of that
\* call: it is the report a new analyzer gives for them, and a call made
\* without trace events reports an empty script_execution_analysis whatever
\* the calls before it were given.
C22_ReportDependsOnlyOnInputs ==
  (analysis.pc = "returned" /\ analysis.hasReport) =>
    /\ analysis.report = ReportOfNewAnalyzer
    /\ ~analysis.trace.hasTrace =>
         analysis.report.script_performance.script_execution_analysis = <<>>

\* decodeURIComponent of line 123 throws: retrieveSourceMap ends without
\* writing an entry
DecodeThrows(t) ==
  LET ref == SourceMappingURL(t.content, t.header)
  IN  ref.kind = "data" /\ ~ref.base64 /\ ref.payload = "badescape"

\* The step is the one in which invocation i writes the entry of its locator
\* in sourceMapCache (lines 109, 130, 137, 144, 151): retrieveSourceMap ends
EntryWritten(i) ==
  /\ tasks[i].pc \in {"haveJs", "haveMap", "consumer"}
  /\ tasks'[i].pc = "done"
  /\ ~(tasks[i].pc = "haveJs" /\ DecodeThrows(tasks[i]))

\* The step is the one in which the read of invocation i answers and its
\* content is written in fileContentsCache (line 205)
BytesWritten(i) ==
  /\ tasks[i].pc \in {"fetchJs", "fetchMap"}
  /\ tasks'[i].pc \in {"haveJs", "haveMap"}

\* C23: each cache entry is written at most once: no step writes a key the
\* byte cache or the parsed-map cache already holds, and an entry, once
\* there, stays as it is (a parsed map is never replaced by a negative
\* entry).
C23_EntriesWrittenOnce ==
  [][/\ \A i \in 1..Len(tasks) :
          /\ BytesWritten(i) => tasks[i].path \notin DOMAIN fileContentsCache
          /\ EntryWritten(i) => tasks[i].loc.url \notin DOMAIN sourceMapCache
     /\ \A k \in DOMAIN fileContentsCache : fileContentsCache'[k] = fileContentsCache[k]
     /\ \A k \in DOMAIN sourceMapCache : sourceMapCache'[k] = sourceMapCache[k]]_vars

\* C24: for every sample stream and time deltas, negative ones included, the
\* sample times processSamplesSpeedscope returns never go back and are as
\* many as the collapsed node ids, and no self time computed from them is
\* negative.
C24_SampleTimesNonDecreasing ==
  Analyzed =>
    LET st == analysis.sampleTimes
    IN  /\ Len(st) = Len(analysis.collapsedSamples)
        /\ \A k \in 1..(Len(st) - 1) : st[k] <= st[k + 1]
        /\ \A k \in 1..Len(analysis.nodes) :
             analysis.nodes[k].selfTime.kind = "number" => analysis.nodes[k].selfTime.n >= 0

\* A stream whose time deltas hold a negative one has been collapsed, and a
\* sample retained before the final flush took the time of the one before it
C24_Witness ==
  /\ Analyzed
  /\ \E i \in 1..Len(analysis.profile.timeDeltas) : analysis.profile.timeDeltas[i] < 0
  /\ \E k \in 1..(Len(analysis.sampleTimes) - 2) :
       /\ analysis.sampleTimes[k] = analysis.sampleTimes[k + 1]
       /\ analysis.collapsedSamples[k] # analysis.collapsedSamples[k + 1]
  /\ \E k \in 1..Len(analysis.nodes) :
       analysis.nodes[k].selfTime.kind = "number" /\ analysis.nodes[k].selfTime.n > 0

\* The time from each entry of the collapsed stream to the next, added up
\* over the entries from i on, the last left out, that are of the node id
RECURSIVE TimeToNext(_, _, _, _)
TimeToNext(collapsedSamples, sampleTimes, id, i) ==
  IF i >= Len(collapsedSamples) THEN 0
  ELSE (IF collapsedSamples[i] = id THEN sampleTimes[i + 1] - sampleTimes[i] ELSE 0)
         + TimeToNext(collapsedSamples, sampleTimes, id, i + 1)

\* The number of entries of the collapsed stream that are of the node id
Visits(collapsedSamples, id) ==
  Cardinality({i \in 1..Len(collapsedSamples) : collapsedSamples[i] = id})

\* C25: the self time of a node is the sum, over the places of the collapsed
\* stream but the last that hold its id, of the time to the next place, and
\* its hitCount is the number of entries of the collapsed stream that hold
\* its id.
C25_SelfTimeAndHitCount ==
  Analyzed =>
    \A k \in 1..Len(analysis.nodes) :
      LET node == analysis.nodes[k]
      IN  /\ node.selfTime =
               Number(TimeToNext(analysis.collapsedSamples, analysis.sampleTimes, node.id, 1))
          /\ node.hitCount = Number(Visits(analysis.collapsedSamples, node.id))

\* The places of the nodes whose id is nowhere in the collapsed stream
NeverSampled(nodes, collapsedSamples) ==
  {k \in 1..Len(nodes) : Visits(collapsedSamples, nodes[k].id) = 0}

\* C26: after analyzeCPUProfileData a node that is nowhere in the collapsed
\* stream has the self time zero, leaves the totalTime of each of its
\* ancestors a number, and has no entry in topFunctions, whatever hitCount
\* the raw profile carried for it.
C26_NeverSampledNodeIsZero ==
  Analyzed =>
    \A k \in NeverSampled(analysis.nodes, analysis.collapsedSamples) :
      LET node == analysis.nodes[k]
      IN  /\ node.selfTime = Number(0)
          /\ \A p \in 1..Len(analysis.nodes) :
               node.id \in Descendants(analysis.nodes, analysis.nodes[p].id, Len(analysis.nodes))
                 => analysis.nodes[p].totalTime.kind = "number"
          /\ \A j \in 1..Len(analysisResults.topFunctions) :
               ~EntryOf(analysisResults.topFunctions[j], node)

\* The display name the policy gives a call frame: the function name when
\* there is one, else "(anonymous <filename>:<line>)" with the line counted
\* from 1 when there is a url, else "(anonymous)"
PolicyDisplayName(callFrame) ==
  IF callFrame.functionName # <<>> THEN callFrame.functionName
  ELSE IF callFrame.url = <<>> THEN <<"(", "a", "n", "o", "n", "y", "m", "o", "u", "s", ")">>
  ELSE <<"(", "a", "n", "o", "n", "y", "m", "o", "u", "s", " ">>
         \o SubSeq(callFrame.url, LastSlash(callFrame.url) + 1, Len(callFrame.url))
         \o <<":">> \o NumberToString(callFrame.lineNumber + 1) \o <<")">>

\* C27: getDisplayName gives the function name of the call frame when it is
\* not empty, else '(anonymous <filename>:<line>)' with the line number of
\* the frame plus one, for the line number 0 too, when there is a url, and
\* '(anonymous)' when there is none: every entry of topFunctions carries
\* that name of its node.
C27_DisplayName ==
  Analyzed =>
    \A j \in 1..Len(analysisResults.topFunctions) :
      \E k \in 1..Len(analysis.nodes) :
        /\ EntryOf(analysisResults.topFunctions[j], analysis.nodes[k])
        /\ analysisResults.topFunctions[j].functionName =
             PolicyDisplayName(analysis.nodes[k].callFrame)

\* The call of invocation t had a parsed map for its locator: the locator is
\* recognized as minified and retrieveSourceMap did not fail
HadParsedMap(t) == isMinifiedJavaScript(t.loc.url) /\ ~t.lookupFailed

\* The map yields a source file for the line and column of invocation t
\* (originalPositionFor takes lines from 1 and columns from 0)
MapYieldsSource(t) ==
  /\ HadParsedMap(t)
  /\ t.loc.line >= 1 /\ t.loc.column >= 0
  /\ originalPositionFor(t.loc.line, t.loc.column).source # <<>>

\* The locators a map of the resource of invocation t can have: that of the
\* resource for an inline map, else the reference resolved against it
MapLocators(t) ==
  {t.loc.url} \cup {resolveUrl(t.loc.url, ref) : ref \in {RelMap, AbsMap}}

\* C28: a resolveLocation call that has ended returned isResolved = TRUE
\* exactly when the parsed map yields a source file for its line and
\* column; the resolved result carries the source as the map gives it in
\* fullOriginalPath, the locator of the map in sourceMapUrl and the name of
\* the map or, when it has none, the hinted name; the unresolved result
\* gives back the locator, line and column of the call with a null name.
C28_ResolvedIffMapYieldsSource ==
  \A i \in 1..Len(tasks) :
    (Done(i) /\ ~tasks[i].memo) =>
      LET t == tasks[i]
          pos == originalPositionFor(t.loc.line, t.loc.column)
      IN  /\ t.result.isResolved <=> MapYieldsSource(t)
          /\ t.result.isResolved =>
               /\ t.result.fullOriginalPath = pos.source
               /\ t.result.sourceMapUrl \in MapLocators(t)
               /\ t.result.originalName =
                    (IF pos.name # Null THEN pos.name ELSE t.loc.originalFunctionName)
               /\ t.result.minifiedUrl = t.loc.url
          /\ ~t.result.isResolved =>
               /\ t.result.originalFile = t.loc.url
               /\ t.result.originalLine = t.loc.line
               /\ t.result.originalColumn = t.loc.column
               /\ t.result.originalName = Null
               /\ t.result.minifiedUrl = t.loc.url

\* C29: when a call of resolveLocation is made after an earlier call with
\* the same locator, line, column and hinted name has ended, it returns a
\* location equal to that of the earlier call: what the cache-miss path
\* resolved, the cache-hit path resolves to the same original file, line,
\* column and name.
C29_SecondResolveEqualsFirst ==
  \A i, j \in 1..Len(tasks) :
    (i < j /\ Done(i) /\ Done(j) /\ tasks[i].loc = tasks[j].loc) =>
      tasks[j].result = tasks[i].result

\* C30: calculateTotalTimesSpeedscope comes to its end on every node list,
\* also on one that is no tree (a node its own child, nodes that list each
\* other, a child of several parents, a child id that names no node): no id
\* is expanded twice, every node is expanded, and a child id without a node
\* adds zero to the total of its parent and raises no error.
C30_TotalsWalkEnds ==
  Analyzed =>
    LET ns == analysis.nodes
        ex == analysis.expanded
    IN  /\ analysis.error \in {"none", "write"}
        /\ \A a, b \in 1..Len(ex) : ex[a] = ex[b] => a = b
        /\ \A id \in NodeIds(ns) : \E a \in 1..Len(ex) : ex[a] = id
        /\ \A k \in 1..Len(ns) :
             (/\ ns[k].children # <<>>
              /\ NodeIndex(ns, ns[k].id) = k
              /\ \A j \in 1..Len(ns[k].children) : ns[k].children[j] \notin NodeIds(ns))
               => ns[k].totalTime = Plus(ns[k].selfTime, Number(0))

\* A list in which a node is its own child, two nodes list each other, a
\* node is the child of two and child ids name no node has been walked
C30_Witness ==
  /\ Analyzed
  /\ \E k \in 1..Len(analysis.nodes) :
       analysis.nodes[k].id \in Descendants(analysis.nodes, analysis.nodes[k].id, 1)
  /\ \E k, l \in 1..Len(analysis.nodes) :
       /\ k # l
       /\ analysis.nodes[k].id \in Descendants(analysis.nodes, analysis.nodes[l].id, 1)
       /\ analysis.nodes[l].id \in Descendants(analysis.nodes, analysis.nodes[k].id, 1)
  /\ \E k \in 1..Len(analysis.nodes) :
       Cardinality(ParentPlaces(analysis.nodes, analysis.nodes[k].id)) >= 2
  /\ \E a \in 1..Len(analysis.expanded) : analysis.expanded[a] \notin NodeIds(analysis.nodes)
  /\ \E k \in 1..Len(analysis.nodes) : analysis.nodes[k].totalTime.kind = "number"
=============================================================================
